---- MODULE Spec2Model ----
(***************************************************************************)
(* Model of the readsend ingestion and migration tools.                    *)
(*                                                                         *)
(*   SpecMig   : src/src/migrate_to_namespace.py, run as a script          *)
(*               (prompt, validate_env, list, then per batch               *)
(*               fetch / upsert / delete), with process death and re-runs. *)
(*   SpecFetch : src/src/ingest.py fetch_bible_verses (checkpoint load,    *)
(*               retry loop with backoff, checkpoint rewrite), with        *)
(*               process death and re-runs.                                *)
(***************************************************************************)
EXTENDS Integers, Sequences, FiniteSets, TLC

(***************************************************************************)
(* Bounds of the model.                                                    *)
(***************************************************************************)
\* number of vector ids the store may hold
MaxIds == 3
\* stands for batch_size = 100 of migrate_to_namespace, scaled to MaxIds
MigBatchSize == 2
\* number of times the migration script is started
MaxMigRuns == 2
\* length of the reference list of the fetch job
MaxRefs == 2
\* number of times the fetch job is started
MaxFetchRuns == 2
\* length of a checkpoint file given to the checkpoint operations
MaxCkptLen == 2
\* number of entries recorded on a checkpoint
MaxCkptRecords == 3
\* number of times a checkpoint is loaded
MaxCkptLoads == 2
\* largest count asked of get_random_highlights
MaxCount == 2
\* number of highlights or verses given to an ingestion
MaxRecords == 5
\* number of highlights or verses given to an ingestion that is run again
MaxRerunRecords == 3
\* number of runs of an ingestion on the same input
MaxIngestRuns == 2
\* stands for batch_size = 100 of migrate_kindle_source, scaled to MaxIds
KindleBatchSize == 2
\* number of runs of migrate_kindle_source
MaxKindleRuns == 2
\* length of the first line of a clipping entry
MaxLineLen == 6
\* number of lines of a clipping entry after the first
MaxRestLines == 3
\* stands for batch_size = 10 of the embedding loops, scaled to MaxRecords
EmbedBatchSize == 2
\* stands for batch_size = 100 of batch_upsert, scaled to MaxRecords
UpsertBatchSize == 2

Ids == 1..MaxIds

(***************************************************************************)
(* The vector store: one map id -> record per namespace.  "" is the        *)
(* default namespace, the fixed source of the migration.                   *)
(***************************************************************************)
NoRec == [values |-> "none", metadata |-> "none"]

Recs == {[values |-> "v1", metadata |-> "m1"], [values |-> "v2", metadata |-> "m2"]}

Namespaces == {"", "aaron"}

SourceNamespace == ""

Partition == [Ids -> Recs \cup {NoRec}]

EmptyPartition == [id \in Ids |-> NoRec]

\* ids present in a partition
IdsIn(part) == {id \in Ids : part[id] # NoRec}

\* index.upsert(vectors=..., namespace=ns): same id overwrites
StoreUpsert(st, ns, vectors) ==
    [st EXCEPT ![ns] = [id \in Ids |-> IF id \in DOMAIN vectors THEN vectors[id] ELSE @[id]]]

\* index.delete(ids=..., namespace=ns)
StoreDelete(st, ns, ids) ==
    [st EXCEPT ![ns] = [id \in Ids |-> IF id \in ids THEN NoRec ELSE @[id]]]

\* index.fetch(ids=..., namespace=ns).vectors: the ids that exist, with their data
StoreFetch(st, ns, ids) ==
    [id \in (ids \cap IdsIn(st[ns])) |-> st[ns][id]]

RECURSIVE SortedSeq(_)
\* the ids of a set in ascending order (the order index.list pages them)
SortedSeq(S) ==
    IF S = {} THEN <<>>
    ELSE LET m == CHOOSE x \in S : \A y \in S : x <= y
         IN <<m>> \o SortedSeq(S \ {m})

\* index.list(namespace=ns), all pages concatenated
StoreList(st, ns) == SortedSeq(IdsIn(st[ns]))

\* all_ids[i:i + batch_size] for a 0-based offset i
Slice(s, i, n) ==
    LET hi == IF i + n < Len(s) THEN i + n ELSE Len(s)
    IN IF i >= Len(s) THEN <<>> ELSE SubSeq(s, i + 1, hi)

SeqRange(s) == {s[k] : k \in 1..Len(s)}

(***************************************************************************)
(* The operator's answer to the prompt, as a sequence of characters.       *)
(***************************************************************************)
Answers == {<<"y">>, <<"Y">>, <<"n">>, <<"N">>, <<"y", "e", "s">>, <<>>}

LowerChar(c) ==
    CASE c = "Y" -> "y"
      [] c = "N" -> "n"
      [] OTHER -> c

\* str.lower()
Lower(s) == [k \in 1..Len(s) |-> LowerChar(s[k])]

\* the migrator proceeds on any answer
ConfirmedAny(answer) == TRUE

\* confirm.lower() == 'y'
Confirmed(answer) == Lower(answer) = <<"y">>

VARIABLES
    store,              \* the vector store, namespace -> partition
    target_namespace,   \* PINECONE_NAMESPACE, the target of the migration
    env_ok,             \* PINECONE_API_KEY and PINECONE_INDEX_HOST are set
    mpc,                \* position of the migration script
    confirm,            \* the operator's answer in the current run
    all_ids,            \* ids listed in the source
    mi,                 \* loop offset i
    batch_ids,          \* ids of the current batch
    vectors_to_upsert,  \* id -> record fetched for the current batch
    migrated_count,
    mig_runs,           \* number of script starts so far
    \* history of the migration, for the properties
    orig_source,        \* source partition before the first run
    source_at_list,     \* source partition when the current run listed it
    store_at_prompt,    \* store when the current run prompted
    acked,              \* ids whose upsert the target acknowledged in this run
    deleted,            \* ids deleted from the source in this run
    mutating_calls,     \* upsert and delete calls issued in this run
    interrupted         \* an earlier run died between two store calls

migVars == <<store, target_namespace, env_ok, mpc, confirm, all_ids, mi, batch_ids,
             vectors_to_upsert, migrated_count, mig_runs, orig_source,
             source_at_list, store_at_prompt, acked, deleted, mutating_calls,
             interrupted>>

VARIABLES
    fetch_env,          \* "ok", "no_key" (ESV_API_KEY unset) or "no_refs" (no references file)
    references,         \* highlight_references.json: the reference_human of each object
    file,               \* fetched_verses.json on disk
    fpc,                \* position of fetch_bible_verses
    fetched_verses,     \* the in-memory checkpoint dict, in insertion order
    metadatas_to_embed, \* the entries collected for embedding (texts and ids are its fields)
    fi,                 \* 1-based position in references
    attempt,            \* loop variable of the retry loop
    wait_time,
    fetch_runs,         \* number of starts of the fetch job so far
    \* history of the current run, per position in references
    get_text_calls,     \* number of esv.passages.get_text calls
    outcomes,           \* what each call returned
    waits,              \* durations of the backoff waits
    sleeps,             \* number of politeness delays
    ckpt_writes,        \* number of completed checkpoint writes
    succeeded,          \* positions whose fetch returned a passage
    loaded_refs,        \* references in the checkpoint loaded at the start
    \* history across runs
    checkpointed,       \* entries that a completed write (or the initial file) made durable
    error_refs          \* references the previous run gave up on after an error
                        \* other than a rate limit, and left out of the file

fetchVars == <<fetch_env, references, file, fpc, fetched_verses, metadatas_to_embed,
               fi, attempt, wait_time, fetch_runs, get_text_calls, outcomes, waits,
               sleeps, ckpt_writes, succeeded, loaded_refs, checkpointed,
               error_refs>>

VARIABLES
    ck_pc,              \* "load" before the file is read, "ready" after
    ck_file,            \* fetched_verses.json
    ck_dict,            \* fetched_verses
    ck_records,         \* number of entries recorded so far
    ck_loads,           \* number of loads so far
    ck_last,            \* the <<reference, text>> recorded last, <<>> if none
    ck_prev             \* the one recorded before it

ckptVars == <<ck_pc, ck_file, ck_dict, ck_records, ck_loads, ck_last, ck_prev>>

VARIABLES
    s_count,            \* the argument count of get_random_highlights
    s_source,           \* the argument source: "None", "Kindle" or "Bible"
    spc,                \* "loop" inside the while loop, "done" after the return
    highlights,         \* the matches accepted so far
    seen_ids,
    attempts,
    \* history of the call
    query_calls,        \* index.query calls issued
    s_errors,           \* iterations that ended in the except branch
    s_at_error,         \* len(highlights) at the last such iteration, -1 if none
    s_rejects           \* why matches were turned down so far

sampleVars == <<s_count, s_source, spc, highlights, seen_ids, attempts, query_calls,
                s_errors, s_at_error, s_rejects>>

VARIABLES
    in_tool,            \* "clippings" (ingest_clippings) or "bible" (upsert_bible_verses)
    in_namespace,       \* PINECONE_NAMESPACE of ingest.py
    in_found,           \* the input file of the tool exists
    in_records,         \* parser.parse(...) or json.load(f): highlights or verses
    ipc,                \* position of the ingestion
    ii,                 \* offset i of the embedding loop
    vectors,            \* the vectors ingest_clippings collects
    iu,                 \* offset i of batch_upsert
    in_store,           \* the index: namespace -> (id -> values and metadata)
    \* history of the ingestion
    embed_calls,        \* the text lists sent to get_embeddings_batch, in order
    embed_failed,       \* offsets of the batches whose embedding call raised
    upsert_calls,       \* the vector lists sent to index.upsert, in order
    upsert_failed,      \* positions in upsert_calls of the calls that raised
    in_runs,            \* number of the run of the tool on this input
    first_ids,          \* the ids in the written namespace when the first run ended
    clean_runs          \* no embedding or write call has failed in an earlier run

\* what a step inside one run leaves alone
rerunVars == <<in_runs, first_ids, clean_runs>>

ingestVars == <<in_tool, in_namespace, in_found, in_records, ipc, ii, vectors, iu,
                in_store, embed_calls, embed_failed, upsert_calls, upsert_failed,
                in_runs, first_ids, clean_runs>>

VARIABLES
    raw_lines,          \* raw_clipping.split('\n'), each line a sequence of characters
    ppc,                \* position of _parse_single
    parsed              \* what _parse_single returned

parseVars == <<raw_lines, ppc, parsed>>

VARIABLES
    e_tool,             \* the tool whose entry point runs
    e_present,          \* the environment variables that are set and not empty
    epc,                \* position of the entry point
    exit_status,        \* exit status of the process; -1 while it runs
    ext_calls           \* the kinds of external call the run has made

envVars == <<e_tool, e_present, epc, exit_status, ext_calls>>

VARIABLES
    k_store,            \* the index: namespace -> (id -> values and metadata)
    kpc,                \* position of migrate_kindle_source
    k_all_ids,          \* all_ids
    ki,                 \* offset i of the batch loop
    k_runs,             \* number of the run
    \* history of the run
    k_start,            \* the index when the run started
    k_written,          \* the ids this run has sent to index.upsert
    k_prev_done         \* an earlier run reached "Migration complete!"

kindleVars == <<k_store, kpc, k_all_ids, ki, k_runs, k_start, k_written, k_prev_done>>

VARIABLES
    a_namespace,        \* PINECONE_NAMESPACE, the same for every tool of one setup
    a_store,            \* the index: namespace -> partition
    a_writer,           \* per id, the ingestion that wrote it ("none" if none did)
    a_moved,            \* the ids migrate_to_namespace has moved
    a_result            \* the last retrieval: tool, namespace queried, ids returned

agreeVars == <<a_namespace, a_store, a_writer, a_moved, a_result>>

\* the variables of the other tools, which a step of one tool leaves alone
outsideMig == <<fetchVars, ckptVars, sampleVars, ingestVars, parseVars, envVars, kindleVars, agreeVars>>

outsideFetch == <<migVars, ckptVars, sampleVars, ingestVars, parseVars, envVars, kindleVars, agreeVars>>

outsideCkpt == <<migVars, fetchVars, sampleVars, ingestVars, parseVars, envVars, kindleVars, agreeVars>>

outsideSample == <<migVars, fetchVars, ckptVars, ingestVars, parseVars, envVars, kindleVars, agreeVars>>

outsideIngest == <<migVars, fetchVars, ckptVars, sampleVars, parseVars, envVars, kindleVars, agreeVars>>

outsideParse == <<migVars, fetchVars, ckptVars, sampleVars, ingestVars, envVars, kindleVars, agreeVars>>

outsideEnv == <<migVars, fetchVars, ckptVars, sampleVars, ingestVars, parseVars, kindleVars, agreeVars>>

outsideKindle == <<migVars, fetchVars, ckptVars, sampleVars, ingestVars, parseVars, envVars, agreeVars>>

outsideAgree == <<migVars, fetchVars, ckptVars, sampleVars, ingestVars, parseVars, envVars,
                  kindleVars>>

vars == <<migVars, fetchVars, ckptVars, sampleVars, ingestVars, parseVars, envVars, kindleVars, agreeVars>>

EmptyVectors == [id \in {} |-> NoRec]

MigInit ==
    /\ store \in [Namespaces -> Partition]
    /\ target_namespace \in Namespaces
    /\ env_ok \in BOOLEAN
    /\ mpc = "prompt"
    /\ confirm = <<>>
    /\ all_ids = <<>>
    /\ mi = 0
    /\ batch_ids = <<>>
    /\ vectors_to_upsert = EmptyVectors
    /\ migrated_count = 0
    /\ mig_runs = 1
    /\ orig_source = store[SourceNamespace]
    /\ source_at_list = EmptyPartition
    /\ store_at_prompt = store
    /\ acked = {}
    /\ deleted = {}
    /\ mutating_calls = 0
    /\ interrupted = FALSE

\* __main__: input(...) and the test of the answer
MigPrompt ==
    /\ mpc = "prompt"
    /\ \E answer \in Answers :
          /\ confirm' = answer
          /\ mpc' = IF Confirmed(answer) THEN "validate" ELSE "cancelled"
    /\ UNCHANGED <<store, target_namespace, env_ok, all_ids, mi, batch_ids,
                   vectors_to_upsert, migrated_count, mig_runs, orig_source,
                   source_at_list, store_at_prompt, acked, deleted,
                   mutating_calls, interrupted, outsideMig>>

\* validate_env(): sys.exit(1) when a variable is missing
MigValidateEnv ==
    /\ mpc = "validate"
    /\ mpc' = IF env_ok THEN "list" ELSE "exit1"
    /\ UNCHANGED <<store, target_namespace, env_ok, confirm, all_ids, mi, batch_ids,
                   vectors_to_upsert, migrated_count, mig_runs, orig_source,
                   source_at_list, store_at_prompt, acked, deleted,
                   mutating_calls, interrupted, outsideMig>>

\* for ids_batch in index.list(namespace=""): all_ids.extend(ids_batch)
MigList ==
    /\ mpc = "list"
    /\ all_ids' = StoreList(store, SourceNamespace)
    /\ source_at_list' = store[SourceNamespace]
    /\ mpc' = IF all_ids' = <<>> THEN "returned" ELSE "loop"
    /\ mi' = 0
    /\ migrated_count' = 0
    /\ UNCHANGED <<store, target_namespace, env_ok, confirm, batch_ids,
                   vectors_to_upsert, mig_runs, orig_source, store_at_prompt,
                   acked, deleted, mutating_calls, interrupted, outsideMig>>

\* index.list raises: "Error listing vectors", return
MigListError ==
    /\ mpc = "list"
    /\ mpc' = "returned"
    /\ UNCHANGED <<store, target_namespace, env_ok, confirm, all_ids, mi, batch_ids,
                   vectors_to_upsert, migrated_count, mig_runs, orig_source,
                   source_at_list, store_at_prompt, acked, deleted,
                   mutating_calls, interrupted, outsideMig>>

\* loop head, batch_ids = all_ids[i:i + batch_size], index.fetch(ids=batch_ids, namespace="")
MigFetch ==
    /\ mpc = "loop"
    /\ mi < Len(all_ids)
    /\ batch_ids' = Slice(all_ids, mi, MigBatchSize)
    /\ vectors_to_upsert' = StoreFetch(store, SourceNamespace, SeqRange(batch_ids'))
    /\ IF DOMAIN vectors_to_upsert' # {}
          THEN mpc' = "upsert" /\ mi' = mi
          ELSE mpc' = "loop" /\ mi' = mi + MigBatchSize
    /\ UNCHANGED <<store, target_namespace, env_ok, confirm, all_ids,
                   migrated_count, mig_runs, orig_source, source_at_list,
                   store_at_prompt, acked, deleted, mutating_calls, interrupted, outsideMig>>

\* index.upsert(vectors=vectors_to_upsert, namespace=target_namespace)
MigUpsert ==
    /\ mpc = "upsert"
    /\ store' = StoreUpsert(store, target_namespace, vectors_to_upsert)
    /\ acked' = acked \cup DOMAIN vectors_to_upsert
    /\ mutating_calls' = mutating_calls + 1
    /\ mpc' = "delete"
    /\ UNCHANGED <<target_namespace, env_ok, confirm, all_ids, mi, batch_ids,
                   vectors_to_upsert, migrated_count, mig_runs, orig_source,
                   source_at_list, store_at_prompt, deleted, interrupted, outsideMig>>

\* index.delete(ids=batch_ids, namespace=""), migrated_count += len(vectors_to_upsert)
MigDelete ==
    /\ mpc = "delete"
    /\ store' = StoreDelete(store, SourceNamespace, SeqRange(batch_ids))
    /\ deleted' = deleted \cup SeqRange(batch_ids)
    /\ mutating_calls' = mutating_calls + 1
    /\ migrated_count' = migrated_count + Cardinality(DOMAIN vectors_to_upsert)
    /\ mi' = mi + MigBatchSize
    /\ mpc' = "loop"
    /\ UNCHANGED <<target_namespace, env_ok, confirm, all_ids, batch_ids,
                   vectors_to_upsert, mig_runs, orig_source, source_at_list,
                   store_at_prompt, acked, interrupted, outsideMig>>

\* the range is exhausted: "Migration complete!"
MigComplete ==
    /\ mpc = "loop"
    /\ mi >= Len(all_ids)
    /\ mpc' = "done"
    /\ UNCHANGED <<store, target_namespace, env_ok, confirm, all_ids, mi, batch_ids,
                   vectors_to_upsert, migrated_count, mig_runs, orig_source,
                   source_at_list, store_at_prompt, acked, deleted,
                   mutating_calls, interrupted, outsideMig>>

\* the process dies between two store calls: it is killed, or fetch, upsert
\* or delete raises (none of them is inside a try)
MigCrash ==
    /\ mpc \in {"list", "loop", "upsert", "delete"}
    /\ mpc' = "crashed"
    /\ interrupted' = TRUE
    /\ UNCHANGED <<store, target_namespace, env_ok, confirm, all_ids, mi, batch_ids,
                   vectors_to_upsert, migrated_count, mig_runs, orig_source,
                   source_at_list, store_at_prompt, acked, deleted,
                   mutating_calls, outsideMig>>

\* the script is started again
MigRerun ==
    /\ mpc \in {"cancelled", "exit1", "returned", "done", "crashed"}
    /\ mig_runs < MaxMigRuns
    /\ mig_runs' = mig_runs + 1
    /\ mpc' = "prompt"
    /\ confirm' = <<>>
    /\ all_ids' = <<>>
    /\ mi' = 0
    /\ batch_ids' = <<>>
    /\ vectors_to_upsert' = EmptyVectors
    /\ migrated_count' = 0
    /\ source_at_list' = EmptyPartition
    /\ store_at_prompt' = store
    /\ acked' = {}
    /\ deleted' = {}
    /\ mutating_calls' = 0
    /\ UNCHANGED <<store, target_namespace, env_ok, orig_source, interrupted, outsideMig>>

MigNext ==
    \/ MigPrompt
    \/ MigValidateEnv
    \/ MigList
    \/ MigListError
    \/ MigFetch
    \/ MigUpsert
    \/ MigDelete
    \/ MigComplete
    \/ MigCrash
    \/ MigRerun

(***************************************************************************)
(* fetch_bible_verses: references, checkpoint file, remote text service.   *)
(***************************************************************************)
\* a reference object without reference_human
NoRef == ""

RefNames == {"Gen 1:1", "John 3:16"}

Passages == {"text a", "text b"}

\* vec_id = f"bible_{version_abbrev}_{safe_ref}", one id per reference text
VecId(ref) == <<"bible", "ESV", ref>>

\* the metadata dict built for a fetched passage
Entry(ref, text) == [reference |-> ref, id |-> VecId(ref), content |-> text]

Entries == {Entry(r, t) : r \in RefNames, t \in Passages}

Keys(d) == {d[k].reference : k \in 1..Len(d)}

\* d[key] for a key that is present
DictGet(d, key) == d[CHOOSE k \in 1..Len(d) : d[k].reference = key]

\* the value is appended whether or not the key is present
DictSetAppends(d, key, value) == Append(d, value)

\* d[key] = value on an insertion-ordered dict
DictSet(d, key, value) ==
    IF key \in Keys(d)
       THEN [k \in 1..Len(d) |-> IF d[k].reference = key THEN value ELSE d[k]]
       ELSE Append(d, value)

RECURSIVE DictFromList(_)
\* {v['reference']: v for v in json.load(f)}
DictFromList(l) ==
    IF l = <<>> THEN <<>>
    ELSE DictSet(DictFromList(SubSeq(l, 1, Len(l) - 1)), l[Len(l)].reference, l[Len(l)])

\* the file states: no file, a JSON list, or a truncated or partly written
\* file that json.load rejects
FileAbsent == [kind |-> "absent", entries |-> <<>>]

FileCorrupt == [kind |-> "corrupt", entries |-> <<>>]

FileList(l) == [kind |-> "list", entries |-> l]

\* the entries a reader of the file can get back
Readable(f) == IF f.kind = "list" THEN SeqRange(f.entries) ELSE {}

\* only the entry added last is written
DumpLastOnly(fv) == IF fv = <<>> THEN <<>> ELSE <<fv[Len(fv)]>>

\* json.dump(list(fetched_verses.values()), f, indent=2)
DumpContent(fv) == fv

\* the reference is never found in the checkpoint
InCheckpointNever(ref, fv) == FALSE

\* ref_str in fetched_verses
InCheckpoint(ref, fv) == ref \in Keys(fv)

\* a retry loop of four attempts
max_retries_four == 3 + 1

max_retries == 3

\* the wait does not grow with the attempt
WaitTimeFlat(att) == 30

\* wait_time = (attempt + 1) * 30
WaitTime(att) == (att + 1) * 30

Positions == 1..MaxRefs

\* the last get_text call of a position raised an error other than a rate limit
EndsWithError(outs) == outs # <<>> /\ outs[Len(outs)] = "error"

ZeroCounts == [k \in Positions |-> 0]

NoSeqs == [k \in Positions |-> <<>>]

\* the lists a run of the program can have written: no reference twice
CheckpointLists ==
    {l \in UNION {[1..n -> Entries] : n \in 0..Cardinality(RefNames)} :
        \A a, b \in 1..Len(l) : l[a].reference = l[b].reference => a = b}

FetchInit ==
    /\ fetch_env \in {"ok", "no_key", "no_refs"}
    /\ references \in UNION {[1..n -> RefNames \cup {NoRef}] : n \in 0..MaxRefs}
    /\ file \in {FileAbsent} \cup {FileList(l) : l \in CheckpointLists}
    /\ fpc = "start"
    /\ fetched_verses = <<>>
    /\ metadatas_to_embed = <<>>
    /\ fi = 1
    /\ attempt = 0
    /\ wait_time = 0
    /\ fetch_runs = 1
    /\ get_text_calls = ZeroCounts
    /\ outcomes = NoSeqs
    /\ waits = NoSeqs
    /\ sleeps = ZeroCounts
    /\ ckpt_writes = ZeroCounts
    /\ succeeded = {}
    /\ loaded_refs = {}
    /\ checkpointed = Readable(file)
    /\ error_refs = {}

\* ESV_API_KEY unset, or highlight_references.json not found: return
FetchSkipped ==
    /\ fpc = "start"
    /\ fetch_env # "ok"
    /\ fpc' = "returned"
    /\ UNCHANGED <<fetch_env, references, file, fetched_verses, metadatas_to_embed,
                   fi, attempt, wait_time, fetch_runs, get_text_calls, outcomes,
                   waits, sleeps, ckpt_writes, succeeded, loaded_refs, checkpointed,
                   error_refs,
                   outsideFetch>>

\* references = json.load(f)
FetchReadReferences ==
    /\ fpc = "start"
    /\ fetch_env = "ok"
    /\ fpc' = "load"
    /\ UNCHANGED <<fetch_env, references, file, fetched_verses, metadatas_to_embed,
                   fi, attempt, wait_time, fetch_runs, get_text_calls, outcomes,
                   waits, sleeps, ckpt_writes, succeeded, loaded_refs, checkpointed,
                   error_refs,
                   outsideFetch>>

\* load fetched_verses.json; FileNotFoundError leaves the dict empty, a file
\* that is not JSON raises out of the function
FetchLoadCheckpoint ==
    /\ fpc = "load"
    /\ IF file.kind = "corrupt"
          THEN /\ fpc' = "crashed"
               /\ UNCHANGED <<fetched_verses, loaded_refs>>
          ELSE /\ fpc' = "next"
               /\ fetched_verses' = DictFromList(file.entries)
               /\ loaded_refs' = Keys(fetched_verses')
    /\ UNCHANGED <<fetch_env, references, file, metadatas_to_embed, fi, attempt,
                   wait_time, fetch_runs, get_text_calls, outcomes, waits, sleeps,
                   ckpt_writes, succeeded, checkpointed, error_refs,
                   outsideFetch>>

\* if not ref_str: continue
FetchSkipMissing ==
    /\ fpc = "next"
    /\ fi <= Len(references)
    /\ references[fi] = NoRef
    /\ fi' = fi + 1
    /\ UNCHANGED <<fetch_env, references, file, fpc, fetched_verses,
                   metadatas_to_embed, attempt, wait_time, fetch_runs,
                   get_text_calls, outcomes, waits, sleeps, ckpt_writes, succeeded,
                   loaded_refs, checkpointed, error_refs,
                   outsideFetch>>

\* if ref_str in fetched_verses: take the entry from the checkpoint, continue
FetchPassThrough ==
    /\ fpc = "next"
    /\ fi <= Len(references)
    /\ references[fi] # NoRef
    /\ InCheckpoint(references[fi], fetched_verses)
    /\ metadatas_to_embed' = Append(metadatas_to_embed, DictGet(fetched_verses, references[fi]))
    /\ fi' = fi + 1
    /\ UNCHANGED <<fetch_env, references, file, fpc, fetched_verses, attempt,
                   wait_time, fetch_runs, get_text_calls, outcomes, waits, sleeps,
                   ckpt_writes, succeeded, loaded_refs, checkpointed, error_refs,
                   outsideFetch>>

\* for attempt in range(max_retries): enter the retry loop
FetchBeginRetries ==
    /\ fpc = "next"
    /\ fi <= Len(references)
    /\ references[fi] # NoRef
    /\ ~InCheckpoint(references[fi], fetched_verses)
    /\ attempt' = 0
    /\ fpc' = "try"
    /\ UNCHANGED <<fetch_env, references, file, fetched_verses, metadatas_to_embed,
                   fi, wait_time, fetch_runs, get_text_calls, outcomes, waits, sleeps,
                   ckpt_writes, succeeded, loaded_refs, checkpointed, error_refs,
                   outsideFetch>>

\* get_text returns a passage: build the metadata, add it to the lists and to
\* fetched_verses
FetchSuccess ==
    /\ fpc = "try"
    /\ \E text \in Passages :
          /\ metadatas_to_embed' = Append(metadatas_to_embed, Entry(references[fi], text))
          /\ fetched_verses' = DictSet(fetched_verses, references[fi], Entry(references[fi], text))
    /\ get_text_calls' = [get_text_calls EXCEPT ![fi] = @ + 1]
    /\ outcomes' = [outcomes EXCEPT ![fi] = Append(@, "ok")]
    /\ succeeded' = succeeded \cup {fi}
    /\ fpc' = "open"
    /\ UNCHANGED <<fetch_env, references, file, fi, attempt, wait_time, fetch_runs,
                   waits, sleeps, ckpt_writes, loaded_refs, checkpointed, error_refs,
                   outsideFetch>>

\* get_text returns no passage: warning, break
FetchEmptyPassage ==
    /\ fpc = "try"
    /\ get_text_calls' = [get_text_calls EXCEPT ![fi] = @ + 1]
    /\ outcomes' = [outcomes EXCEPT ![fi] = Append(@, "empty")]
    /\ fi' = fi + 1
    /\ fpc' = "next"
    /\ UNCHANGED <<fetch_env, references, file, fetched_verses, metadatas_to_embed,
                   attempt, wait_time, fetch_runs, waits, sleeps, ckpt_writes,
                   succeeded, loaded_refs, checkpointed, error_refs,
                   outsideFetch>>

\* get_text raises with "429" or "throttled" in the message
FetchRateLimited ==
    /\ fpc = "try"
    /\ get_text_calls' = [get_text_calls EXCEPT ![fi] = @ + 1]
    /\ outcomes' = [outcomes EXCEPT ![fi] = Append(@, "throttled")]
    /\ wait_time' = WaitTime(attempt)
    /\ fpc' = "backoff"
    /\ UNCHANGED <<fetch_env, references, file, fetched_verses, metadatas_to_embed,
                   fi, attempt, fetch_runs, waits, sleeps, ckpt_writes, succeeded,
                   loaded_refs, checkpointed, error_refs,
                   outsideFetch>>

\* the error is retried like a rate limit
FetchOtherErrorRetries ==
    /\ fpc = "try"
    /\ get_text_calls' = [get_text_calls EXCEPT ![fi] = @ + 1]
    /\ outcomes' = [outcomes EXCEPT ![fi] = Append(@, "error")]
    /\ wait_time' = WaitTime(attempt)
    /\ fpc' = "backoff"
    /\ UNCHANGED <<fetch_env, references, file, fetched_verses, metadatas_to_embed,
                   fi, attempt, fetch_runs, waits, sleeps, ckpt_writes, succeeded,
                   loaded_refs, checkpointed, error_refs, outsideFetch>>

\* the error is not caught and ends the job
FetchOtherErrorAborts ==
    /\ fpc = "try"
    /\ get_text_calls' = [get_text_calls EXCEPT ![fi] = @ + 1]
    /\ outcomes' = [outcomes EXCEPT ![fi] = Append(@, "error")]
    /\ fpc' = "crashed"
    /\ UNCHANGED <<fetch_env, references, file, fetched_verses, metadatas_to_embed,
                   fi, attempt, wait_time, fetch_runs, waits, sleeps, ckpt_writes,
                   succeeded, loaded_refs, checkpointed, error_refs, outsideFetch>>

\* get_text raises any other exception: log, break
FetchOtherError ==
    /\ fpc = "try"
    /\ get_text_calls' = [get_text_calls EXCEPT ![fi] = @ + 1]
    /\ outcomes' = [outcomes EXCEPT ![fi] = Append(@, "error")]
    /\ fi' = fi + 1
    /\ fpc' = "next"
    /\ UNCHANGED <<fetch_env, references, file, fetched_verses, metadatas_to_embed,
                   attempt, wait_time, fetch_runs, waits, sleeps, ckpt_writes,
                   succeeded, loaded_refs, checkpointed, error_refs,
                   outsideFetch>>

\* time.sleep(wait_time), then the next iteration of the retry loop, or the
\* next reference when the range is exhausted
FetchBackoff ==
    /\ fpc = "backoff"
    /\ waits' = [waits EXCEPT ![fi] = Append(@, wait_time)]
    /\ attempt' = attempt + 1
    /\ IF attempt + 1 < max_retries
          THEN fpc' = "try" /\ fi' = fi
          ELSE fpc' = "next" /\ fi' = fi + 1
    /\ UNCHANGED <<fetch_env, references, file, fetched_verses, metadatas_to_embed,
                   wait_time, fetch_runs, get_text_calls, outcomes, sleeps,
                   ckpt_writes, succeeded, loaded_refs, checkpointed, error_refs,
                   outsideFetch>>

\* open(output_file, "w") truncates the file
FetchOpenCheckpoint ==
    /\ fpc = "open"
    /\ file' = FileCorrupt
    /\ fpc' = "dump"
    /\ UNCHANGED <<fetch_env, references, fetched_verses, metadatas_to_embed, fi,
                   attempt, wait_time, fetch_runs, get_text_calls, outcomes, waits,
                   sleeps, ckpt_writes, succeeded, loaded_refs, checkpointed, error_refs,
                   outsideFetch>>

\* json.dump(...) and the close of the file complete
FetchDumpCheckpoint ==
    /\ fpc = "dump"
    /\ file' = FileList(DumpContent(fetched_verses))
    /\ ckpt_writes' = [ckpt_writes EXCEPT ![fi] = @ + 1]
    /\ checkpointed' = checkpointed \cup Readable(file')
    /\ fpc' = "sleep"
    /\ UNCHANGED <<fetch_env, references, fetched_verses, metadatas_to_embed, fi,
                   attempt, wait_time, fetch_runs, get_text_calls, outcomes, waits,
                   sleeps, succeeded, loaded_refs, error_refs,
                   outsideFetch>>

\* time.sleep(1.0), break
FetchPolitenessDelay ==
    /\ fpc = "sleep"
    /\ sleeps' = [sleeps EXCEPT ![fi] = @ + 1]
    /\ fi' = fi + 1
    /\ fpc' = "next"
    /\ UNCHANGED <<fetch_env, references, file, fetched_verses, metadatas_to_embed,
                   attempt, wait_time, fetch_runs, get_text_calls, outcomes, waits,
                   ckpt_writes, succeeded, loaded_refs, checkpointed, error_refs,
                   outsideFetch>>

\* the loop over references is exhausted: "Fetch complete"
FetchComplete ==
    /\ fpc = "next"
    /\ fi > Len(references)
    /\ fpc' = "done"
    /\ UNCHANGED <<fetch_env, references, file, fetched_verses, metadatas_to_embed,
                   fi, attempt, wait_time, fetch_runs, get_text_calls, outcomes,
                   waits, sleeps, ckpt_writes, succeeded, loaded_refs, checkpointed,
                   error_refs,
                   outsideFetch>>

\* the process dies (killed, power loss, KeyboardInterrupt during a sleep);
\* whatever is on disk stays as it is
FetchCrash ==
    /\ fpc \in {"load", "next", "try", "backoff", "open", "dump", "sleep"}
    /\ fpc' = "crashed"
    /\ UNCHANGED <<fetch_env, references, file, fetched_verses, metadatas_to_embed,
                   fi, attempt, wait_time, fetch_runs, get_text_calls, outcomes,
                   waits, sleeps, ckpt_writes, succeeded, loaded_refs, checkpointed,
                   error_refs,
                   outsideFetch>>

\* the fetch job is started again on the same files
FetchRerun ==
    /\ fpc \in {"returned", "done", "crashed"}
    /\ fetch_runs < MaxFetchRuns
    /\ fetch_runs' = fetch_runs + 1
    /\ fpc' = "start"
    /\ fetched_verses' = <<>>
    /\ metadatas_to_embed' = <<>>
    /\ fi' = 1
    /\ attempt' = 0
    /\ wait_time' = 0
    /\ get_text_calls' = ZeroCounts
    /\ outcomes' = NoSeqs
    /\ waits' = NoSeqs
    /\ sleeps' = ZeroCounts
    /\ ckpt_writes' = ZeroCounts
    /\ succeeded' = {}
    /\ loaded_refs' = {}
    /\ error_refs' = {references[k] : k \in {j \in 1..Len(references) : EndsWithError(outcomes[j])}}
                         \ {e.reference : e \in Readable(file)}
    /\ UNCHANGED <<fetch_env, references, file, checkpointed, outsideFetch>>

FetchNext ==
    \/ FetchSkipped
    \/ FetchReadReferences
    \/ FetchLoadCheckpoint
    \/ FetchSkipMissing
    \/ FetchPassThrough
    \/ FetchBeginRetries
    \/ FetchSuccess
    \/ FetchEmptyPassage
    \/ FetchRateLimited
    \/ FetchOtherError
    \/ FetchBackoff
    \/ FetchOpenCheckpoint
    \/ FetchDumpCheckpoint
    \/ FetchPolitenessDelay
    \/ FetchComplete
    \/ FetchCrash
    \/ FetchRerun

(***************************************************************************)
(* The checkpoint operations of fetch_bible_verses on their own: the load  *)
(* of the file into the dict and the recording of one entry (dict store    *)
(* and rewrite of the file), applied in any order to any file.             *)
(***************************************************************************)
\* any JSON list of entries, also one that names a reference twice
AnyCheckpointLists == UNION {[1..n -> Entries] : n \in 0..MaxCkptLen}

CkptInit ==
    /\ ck_pc = "load"
    /\ ck_file \in {FileAbsent} \cup {FileList(l) : l \in AnyCheckpointLists}
    /\ ck_dict = <<>>
    /\ ck_records = 0
    /\ ck_loads = 1
    /\ ck_last = <<>>
    /\ ck_prev = <<>>

\* fetched_verses = {v['reference']: v for v in json.load(f)}, {} without a file
CkptLoad ==
    /\ ck_pc = "load"
    /\ ck_dict' = DictFromList(ck_file.entries)
    /\ ck_pc' = "ready"
    /\ UNCHANGED <<ck_file, ck_records, ck_loads, ck_last, ck_prev, outsideCkpt>>

\* fetched_verses[ref_str] = metadata, then the dump of the dict to the file
CkptRecord ==
    /\ ck_pc = "ready"
    /\ ck_records < MaxCkptRecords
    /\ \E ref \in RefNames, text \in Passages :
          /\ ck_dict' = DictSet(ck_dict, ref, Entry(ref, text))
          /\ ck_file' = FileList(DumpContent(ck_dict'))
          /\ ck_last' = <<ref, text>>
    /\ ck_prev' = ck_last
    /\ ck_records' = ck_records + 1
    /\ UNCHANGED <<ck_pc, ck_loads, outsideCkpt>>

\* a new run starts from the file
CkptRestart ==
    /\ ck_pc = "ready"
    /\ ck_loads < MaxCkptLoads
    /\ ck_loads' = ck_loads + 1
    /\ ck_dict' = <<>>
    /\ ck_pc' = "load"
    /\ UNCHANGED <<ck_file, ck_records, ck_last, ck_prev, outsideCkpt>>

CkptNext ==
    \/ CkptLoad
    \/ CkptRecord
    \/ CkptRestart

(***************************************************************************)
(* get_random_highlights: rejection sampling over top-1 queries.           *)
(***************************************************************************)
\* the characters of a content string; blank and newline are whitespace
IsSpace(c) == c \in {" ", "\n"}

RECURSIVE LStrip(_)
LStrip(str) == IF str # <<>> /\ IsSpace(Head(str)) THEN LStrip(Tail(str)) ELSE str

RECURSIVE RStrip(_)
RStrip(str) ==
    IF str # <<>> /\ IsSpace(str[Len(str)]) THEN RStrip(SubSeq(str, 1, Len(str) - 1)) ELSE str

\* str.strip()
Strip(str) == RStrip(LStrip(str))

RECURSIVE WordLen(_)
\* length of the run of non-whitespace characters at the head
WordLen(str) == IF str = <<>> \/ IsSpace(Head(str)) THEN 0 ELSE 1 + WordLen(Tail(str))

RECURSIVE Split(_)
\* str.split(): the maximal runs of non-whitespace characters
Split(str) ==
    IF str = <<>> THEN <<>>
    ELSE IF IsSpace(Head(str)) THEN Split(Tail(str))
    ELSE <<SubSeq(str, 1, WordLen(str))>> \o Split(SubSeq(str, WordLen(str) + 1, Len(str)))

SampleContents ==
    {<<>>, <<" ">>, <<"a">>, <<" ", "a", "\n">>, <<"a", "b">>, <<"a", " ", "b">>,
     <<"a", "\n", "b">>}

\* what a top-1 match can look like: metadata with content, metadata without
\* the content key, or no metadata at all
Matches ==
    {[id |-> i, kind |-> "content", content |-> c] : i \in Ids, c \in SampleContents}
    \cup {[id |-> i, kind |-> k, content |-> <<>>] : i \in Ids, k \in {"no_content", "no_metadata"}}

\* match['metadata'].get('content', '')
ContentOf(match) == IF match.kind = "content" THEN match.content ELSE <<>>

\* a content of one token is accepted
AcceptsOneToken(content) == Len(Split(Strip(content))) > 0

\* len(content.split()) > 1 on the stripped content
Accepts(content) == Len(Split(Strip(content))) > 1

\* every id counts as new
NotSeenAlways(id, seen) == TRUE

\* match['id'] not in seen_ids
NotSeen(id, seen) == id \notin seen

\* the budget admits one attempt more
LoopGuardOneMore(h, a, c) == Len(h) < c /\ a <= c * 3

\* len(highlights) < count and attempts < count * 3
LoopGuard(h, a, c) == Len(h) < c /\ a < c * 3

\* filter_dict
FilterDict(source) == IF source = "None" THEN "None" ELSE <<"source", "$eq", source>>

SampleInit ==
    /\ s_count \in 0..MaxCount
    /\ s_source \in {"None", "Kindle", "Bible"}
    /\ spc = "loop"
    /\ highlights = <<>>
    /\ seen_ids = {}
    /\ attempts = 0
    /\ query_calls = 0
    /\ s_errors = 0
    /\ s_at_error = -1
    /\ s_rejects = {}

\* the query returns a match with a new id and more than one token
SampleAccept ==
    /\ spc = "loop"
    /\ LoopGuard(highlights, attempts, s_count)
    /\ \E match \in Matches :
          /\ NotSeen(match.id, seen_ids)
          /\ match.kind # "no_metadata"
          /\ Accepts(ContentOf(match))
          /\ highlights' = Append(highlights, match)
          /\ seen_ids' = seen_ids \cup {match.id}
    /\ attempts' = attempts + 1
    /\ query_calls' = query_calls + 1
    /\ UNCHANGED <<s_count, s_source, spc, s_errors, s_at_error, s_rejects, outsideSample>>

\* the query returns a match whose id was accepted before, or whose content
\* is missing, empty or one token
SampleReject ==
    /\ spc = "loop"
    /\ LoopGuard(highlights, attempts, s_count)
    /\ \E match \in Matches :
          /\ \/ ~NotSeen(match.id, seen_ids)
             \/ match.kind # "no_metadata" /\ ~Accepts(ContentOf(match))
          /\ s_rejects' = s_rejects \cup
                {IF match.id \in seen_ids THEN "seen"
                 ELSE IF match.kind = "no_content" THEN "missing"
                 ELSE IF Split(match.content) = <<>> THEN "empty"
                 ELSE "single"}
    /\ attempts' = attempts + 1
    /\ query_calls' = query_calls + 1
    /\ UNCHANGED <<s_count, s_source, spc, highlights, seen_ids, s_errors, s_at_error,
                   outsideSample>>

\* the query returns no match
SampleNoMatch ==
    /\ spc = "loop"
    /\ LoopGuard(highlights, attempts, s_count)
    /\ attempts' = attempts + 1
    /\ query_calls' = query_calls + 1
    /\ UNCHANGED <<s_count, s_source, spc, highlights, seen_ids, s_errors, s_at_error,
                   s_rejects, outsideSample>>

\* the exception is not caught: the call ends without a result
SampleQueryErrorAborts ==
    /\ spc = "loop"
    /\ LoopGuard(highlights, attempts, s_count)
    /\ attempts' = attempts + 1
    /\ query_calls' = query_calls + 1
    /\ s_errors' = s_errors + 1
    /\ s_at_error' = Len(highlights)
    /\ spc' = "raised"
    /\ highlights' = <<>>
    /\ UNCHANGED <<s_count, s_source, seen_ids, s_rejects, outsideSample>>

\* an exception inside the try (the query raises, or a new match has no
\* metadata): print, continue
SampleQueryError ==
    /\ spc = "loop"
    /\ LoopGuard(highlights, attempts, s_count)
    /\ attempts' = attempts + 1
    /\ query_calls' = query_calls + 1
    /\ s_errors' = s_errors + 1
    /\ s_at_error' = Len(highlights)
    /\ UNCHANGED <<s_count, s_source, spc, highlights, seen_ids, s_rejects, outsideSample>>

\* the loop condition is false: return highlights
SampleReturn ==
    /\ spc = "loop"
    /\ ~LoopGuard(highlights, attempts, s_count)
    /\ spc' = "done"
    /\ UNCHANGED <<s_count, s_source, highlights, seen_ids, attempts, query_calls,
                   s_errors, s_at_error, s_rejects, outsideSample>>

SampleNext ==
    \/ SampleAccept
    \/ SampleReject
    \/ SampleNoMatch
    \/ SampleQueryError
    \/ SampleReturn

(***************************************************************************)
(* ingest.py: ingest_clippings with batch_upsert, and upsert_bible_verses. *)
(***************************************************************************)
ClipContents == {"alpha beta", "gamma"}

\* the Highlight values the parser hands over
Highlights ==
    {[title |-> t, author |-> "Author", metadata |-> "loc 1", content |-> c] :
        t \in {"Title 1", "Title 2"}, c \in ClipContents}

\* Highlight.id: hashlib.md5(content.encode('utf-8')).hexdigest()
Md5(content) ==
    CASE content = "alpha beta" -> "2a9f"
      [] content = "gamma" -> "05b0"
      [] OTHER -> "d41d"

\* the vector the embedding model gives for one text
EmbedOf(text) == <<"embedding", text>>

\* get_embeddings_batch(texts, pc): one vector per input, in input order
GetEmbeddingsBatch(texts) == [k \in 1..Len(texts) |-> EmbedOf(texts[k])]

\* the id of the vector entry depends on the title as well as the content
ClipVectorTitleId(h, emb) ==
    [id |-> IF h.title = "Title 1" THEN Md5(h.content) ELSE h.title,
     values |-> emb,
     metadata |-> [source |-> "Kindle", title |-> h.title, author |-> h.author,
                   content |-> h.content, original_metadata |-> h.metadata]]

\* the vector entry ingest_clippings builds for a highlight
ClipVector(h, emb) ==
    [id |-> Md5(h.content),
     values |-> emb,
     metadata |-> [source |-> "Kindle", title |-> h.title, author |-> h.author,
                   content |-> h.content, original_metadata |-> h.metadata]]

\* each highlight is paired with the embedding at the mirrored position
ZipVectorsReversed(batch, embeddings) ==
    [k \in 1..(IF Len(batch) < Len(embeddings) THEN Len(batch) ELSE Len(embeddings)) |->
        ClipVector(batch[k], embeddings[Len(embeddings) + 1 - k])]

\* for h, emb in zip(batch_highlights, embeddings): vectors.append({...})
ZipVectors(batch, embeddings) ==
    [k \in 1..(IF Len(batch) < Len(embeddings) THEN Len(batch) ELSE Len(embeddings)) |->
        ClipVector(batch[k], embeddings[k])]

\* for j, emb in enumerate(embeddings): batch_vectors.append({...})
BibleVectors(batch, embeddings) ==
    [j \in 1..Len(embeddings) |->
        [id |-> batch[j].id,
         values |-> embeddings[j],
         metadata |-> [reference |-> batch[j].reference, content |-> batch[j].content]]]

\* [h.content for h in batch]
Contents(batch) == [k \in 1..Len(batch) |-> batch[k].content]

\* index.upsert(vectors=vecs) on one namespace: a later entry of the same id
\* replaces an earlier one
PartitionUpsert(part, vecs) ==
    LET ids == {vecs[k].id : k \in 1..Len(vecs)}
        last(id) == CHOOSE k \in 1..Len(vecs) :
                        /\ vecs[k].id = id
                        /\ \A m \in 1..Len(vecs) : vecs[m].id = id => m <= k
    IN [id \in (DOMAIN part) \cup ids |->
            IF id \in ids
               THEN [values |-> vecs[last(id)].values, metadata |-> vecs[last(id)].metadata]
               ELSE part[id]]

NoVectors == [id \in {} |-> <<>>]

\* the state at the call of the tool on an input of at most n records
IngestStart(n) ==
    /\ in_tool \in {"clippings", "bible"}
    /\ in_namespace \in Namespaces
    /\ in_found \in BOOLEAN
    /\ in_records \in UNION {[1..m -> IF in_tool = "clippings" THEN Highlights ELSE Entries] :
                               m \in 0..n}
    /\ ipc = "start"
    /\ ii = 0
    /\ vectors = <<>>
    /\ iu = 0
    /\ in_store = [ns \in Namespaces |-> NoVectors]
    /\ embed_calls = <<>>
    /\ embed_failed = {}
    /\ upsert_calls = <<>>
    /\ upsert_failed = {}
    /\ in_runs = 1
    /\ first_ids = {}
    /\ clean_runs = TRUE

IngestInit == IngestStart(MaxRecords)

ReingestInit == IngestStart(MaxRerunRecords)

\* the input file is missing: FileNotFoundError, message, return
IngestNoFile ==
    /\ ipc = "start"
    /\ ~in_found
    /\ ipc' = "returned"
    /\ UNCHANGED <<in_tool, in_namespace, in_found, in_records, ii, vectors, iu,
                   in_store, embed_calls, embed_failed, upsert_calls, upsert_failed,
                   rerunVars, outsideIngest>>

\* highlights = parser.parse("My Clippings.txt"), or verses = json.load(f)
IngestRead ==
    /\ ipc = "start"
    /\ in_found
    /\ ipc' = "embed"
    /\ ii' = 0
    /\ vectors' = <<>>
    /\ UNCHANGED <<in_tool, in_namespace, in_found, in_records, iu, in_store,
                   embed_calls, embed_failed, upsert_calls, upsert_failed,
                   rerunVars, outsideIngest>>

\* ingest_clippings: one batch is embedded and its vectors are collected
ClipEmbedBatch ==
    /\ in_tool = "clippings"
    /\ ipc = "embed"
    /\ ii < Len(in_records)
    /\ LET batch == Slice(in_records, ii, EmbedBatchSize)
       IN /\ embed_calls' = Append(embed_calls, Contents(batch))
          /\ vectors' = vectors \o ZipVectors(batch, GetEmbeddingsBatch(Contents(batch)))
    /\ ii' = ii + EmbedBatchSize
    /\ UNCHANGED <<in_tool, in_namespace, in_found, in_records, ipc, iu, in_store,
                   embed_failed, upsert_calls, upsert_failed,
                   rerunVars, outsideIngest>>

\* the embedding call raises and the loop is left: no later batch is embedded
ClipEmbedFailBreaks ==
    /\ in_tool = "clippings"
    /\ ipc = "embed"
    /\ ii < Len(in_records)
    /\ embed_calls' = Append(embed_calls, Contents(Slice(in_records, ii, EmbedBatchSize)))
    /\ embed_failed' = embed_failed \cup {ii}
    /\ ii' = Len(in_records)
    /\ UNCHANGED <<in_tool, in_namespace, in_found, in_records, ipc, vectors, iu,
                   in_store, upsert_calls, upsert_failed,
                   rerunVars, outsideIngest>>

\* ingest_clippings: the embedding call raises; the except branch logs it
ClipEmbedFail ==
    /\ in_tool = "clippings"
    /\ ipc = "embed"
    /\ ii < Len(in_records)
    /\ embed_calls' = Append(embed_calls, Contents(Slice(in_records, ii, EmbedBatchSize)))
    /\ embed_failed' = embed_failed \cup {ii}
    /\ ii' = ii + EmbedBatchSize
    /\ UNCHANGED <<in_tool, in_namespace, in_found, in_records, ipc, vectors, iu,
                   in_store, upsert_calls, upsert_failed,
                   rerunVars, outsideIngest>>

\* ingest_clippings: the loop is over; batch_upsert is called if vectors is
\* not empty
ClipEmbedDone ==
    /\ in_tool = "clippings"
    /\ ipc = "embed"
    /\ ii >= Len(in_records)
    /\ ipc' = IF vectors # <<>> THEN "upsert" ELSE "done"
    /\ iu' = 0
    /\ UNCHANGED <<in_tool, in_namespace, in_found, in_records, ii, vectors, in_store,
                   embed_calls, embed_failed, upsert_calls, upsert_failed,
                   rerunVars, outsideIngest>>

\* batch_upsert: index.upsert(vectors=batch, namespace=PINECONE_NAMESPACE)
BatchUpsert ==
    /\ ipc = "upsert"
    /\ iu < Len(vectors)
    /\ LET batch == Slice(vectors, iu, UpsertBatchSize)
       IN /\ upsert_calls' = Append(upsert_calls, batch)
          /\ in_store' = [in_store EXCEPT ![in_namespace] = PartitionUpsert(@, batch)]
    /\ iu' = iu + UpsertBatchSize
    /\ UNCHANGED <<in_tool, in_namespace, in_found, in_records, ipc, ii, vectors,
                   embed_calls, embed_failed, upsert_failed,
                   rerunVars, outsideIngest>>

\* batch_upsert: index.upsert raises; nothing catches it in batch_upsert,
\* ingest_clippings or main
BatchUpsertFail ==
    /\ ipc = "upsert"
    /\ iu < Len(vectors)
    /\ upsert_calls' = Append(upsert_calls, Slice(vectors, iu, UpsertBatchSize))
    /\ upsert_failed' = upsert_failed \cup {Len(upsert_calls')}
    /\ ipc' = "raised"
    /\ UNCHANGED <<in_tool, in_namespace, in_found, in_records, ii, vectors, iu,
                   in_store, embed_calls, embed_failed,
                   rerunVars, outsideIngest>>

\* batch_upsert: the range is exhausted
BatchUpsertDone ==
    /\ ipc = "upsert"
    /\ iu >= Len(vectors)
    /\ ipc' = "done"
    /\ UNCHANGED <<in_tool, in_namespace, in_found, in_records, ii, vectors, iu,
                   in_store, embed_calls, embed_failed, upsert_calls, upsert_failed,
                   rerunVars, outsideIngest>>

\* upsert_bible_verses: one batch is embedded and upserted (no namespace
\* argument: the default namespace)
BibleBatch ==
    /\ in_tool = "bible"
    /\ ipc = "embed"
    /\ ii < Len(in_records)
    /\ LET batch == Slice(in_records, ii, EmbedBatchSize)
           batch_vectors == BibleVectors(batch, GetEmbeddingsBatch(Contents(batch)))
       IN /\ embed_calls' = Append(embed_calls, Contents(batch))
          /\ upsert_calls' = Append(upsert_calls, batch_vectors)
          /\ in_store' = [in_store EXCEPT ![""] = PartitionUpsert(@, batch_vectors)]
    /\ ii' = ii + EmbedBatchSize
    /\ UNCHANGED <<in_tool, in_namespace, in_found, in_records, ipc, vectors, iu,
                   embed_failed, upsert_failed,
                   rerunVars, outsideIngest>>

\* upsert_bible_verses: the embedding call raises; the except branch logs it
BibleEmbedFail ==
    /\ in_tool = "bible"
    /\ ipc = "embed"
    /\ ii < Len(in_records)
    /\ embed_calls' = Append(embed_calls, Contents(Slice(in_records, ii, EmbedBatchSize)))
    /\ embed_failed' = embed_failed \cup {ii}
    /\ ii' = ii + EmbedBatchSize
    /\ UNCHANGED <<in_tool, in_namespace, in_found, in_records, ipc, vectors, iu,
                   in_store, upsert_calls, upsert_failed,
                   rerunVars, outsideIngest>>

\* upsert_bible_verses: index.upsert raises; the same except branch logs it
BibleUpsertFail ==
    /\ in_tool = "bible"
    /\ ipc = "embed"
    /\ ii < Len(in_records)
    /\ LET batch == Slice(in_records, ii, EmbedBatchSize)
       IN /\ embed_calls' = Append(embed_calls, Contents(batch))
          /\ upsert_calls' = Append(upsert_calls,
                                    BibleVectors(batch, GetEmbeddingsBatch(Contents(batch))))
    /\ upsert_failed' = upsert_failed \cup {Len(upsert_calls')}
    /\ ii' = ii + EmbedBatchSize
    /\ UNCHANGED <<in_tool, in_namespace, in_found, in_records, ipc, vectors, iu,
                   in_store, embed_failed,
                   rerunVars, outsideIngest>>

\* upsert_bible_verses: the loop is over
BibleDone ==
    /\ in_tool = "bible"
    /\ ipc = "embed"
    /\ ii >= Len(in_records)
    /\ ipc' = "done"
    /\ UNCHANGED <<in_tool, in_namespace, in_found, in_records, ii, vectors, iu,
                   in_store, embed_calls, embed_failed, upsert_calls, upsert_failed,
                   rerunVars, outsideIngest>>

IngestNext ==
    \/ IngestNoFile
    \/ IngestRead
    \/ ClipEmbedBatch
    \/ ClipEmbedFail
    \/ ClipEmbedDone
    \/ BatchUpsert
    \/ BatchUpsertFail
    \/ BatchUpsertDone
    \/ BibleBatch
    \/ BibleEmbedFail
    \/ BibleUpsertFail
    \/ BibleDone

\* the tool is called again on the same input, against the store the
\* earlier run left
IngestRerun ==
    /\ ipc \in {"done", "raised"}
    /\ in_runs < MaxIngestRuns
    /\ in_runs' = in_runs + 1
    /\ first_ids' = IF in_runs = 1
                       THEN DOMAIN in_store[IF in_tool = "clippings" THEN in_namespace ELSE ""]
                       ELSE first_ids
    /\ clean_runs' = (clean_runs /\ embed_failed = {} /\ upsert_failed = {})
    /\ ipc' = "start"
    /\ ii' = 0
    /\ vectors' = <<>>
    /\ iu' = 0
    /\ embed_calls' = <<>>
    /\ embed_failed' = {}
    /\ upsert_calls' = <<>>
    /\ upsert_failed' = {}
    /\ UNCHANGED <<in_tool, in_namespace, in_found, in_records, in_store, outsideIngest>>

ReingestNext ==
    \/ IngestNext
    \/ IngestRerun

(***************************************************************************)
(* parser.py: ClippingsParser._parse_single on the lines of one entry.     *)
(***************************************************************************)
LineChars == {"T", " ", "(", ")"}

\* the first line of an entry, as the file gives it
FirstLines == UNION {[1..n -> LineChars] : n \in 0..MaxLineLen}

\* the lines after the first: blank ones and one-letter ones
RestLines == UNION {[1..n -> {<<>>, <<" ">>, <<"m">>}] : n \in 0..MaxRestLines}

\* author = "Unknown"
Unknown == <<"U", "n", "k", "n", "o", "w", "n">>

\* return None
NoHighlight == [kind |-> "none"]

RECURSIVE StripLines(_)
\* [l.strip() for l in lines if l.strip()]
StripLines(ls) ==
    IF ls = <<>> THEN <<>>
    ELSE IF Strip(Head(ls)) = <<>> THEN StripLines(Tail(ls))
    ELSE <<Strip(Head(ls))>> \o StripLines(Tail(ls))

RECURSIVE JoinLines(_)
\* "\n".join(ls)
JoinLines(ls) ==
    IF ls = <<>> THEN <<>>
    ELSE IF Len(ls) = 1 THEN Head(ls)
    ELSE Head(ls) \o <<"\n">> \o JoinLines(Tail(ls))

\* the positions of "(" in a line that ends with ")"
OpenBeforeEnd(line) ==
    IF line # <<>> /\ line[Len(line)] = ")"
       THEN {i \in 1..(Len(line) - 1) : line[i] = "("}
       ELSE {}

\* re.search(r'\((.*?)\)$', title_line).start() + 1, or 0 when nothing
\* matches: the scan takes the leftmost "(" from which the line can be
\* matched to its end, and "." matches every character of a line
AuthorMatchStart(line) ==
    IF OpenBeforeEnd(line) = {} THEN 0
    ELSE CHOOSE i \in OpenBeforeEnd(line) : \A j \in OpenBeforeEnd(line) : i <= j

\* the Highlight built from the stripped non-blank lines
ParsedHighlight(lines) ==
    LET title_line == lines[1]
        start == AuthorMatchStart(title_line)
    IN [kind |-> "highlight",
        title |-> IF start > 0 THEN Strip(SubSeq(title_line, 1, start - 1)) ELSE title_line,
        author |-> IF start > 0 THEN SubSeq(title_line, start + 1, Len(title_line) - 1)
                                ELSE Unknown,
        metadata |-> lines[2],
        content |-> JoinLines(SubSeq(lines, 3, Len(lines)))]

ParseInit ==
    /\ raw_lines \in {<<f>> \o r : f \in FirstLines, r \in RestLines}
    /\ ppc = "call"
    /\ parsed = NoHighlight

\* fewer than three non-blank lines: return None
ParseSingleNone ==
    /\ ppc = "call"
    /\ Len(StripLines(raw_lines)) < 3
    /\ parsed' = NoHighlight
    /\ ppc' = "returned"
    /\ UNCHANGED <<raw_lines, outsideParse>>

\* three non-blank lines or more: return Highlight(...)
ParseSingle ==
    /\ ppc = "call"
    /\ Len(StripLines(raw_lines)) >= 3
    /\ parsed' = ParsedHighlight(StripLines(raw_lines))
    /\ ppc' = "returned"
    /\ UNCHANGED <<raw_lines, outsideParse>>

ParseNext ==
    \/ ParseSingleNone
    \/ ParseSingle

(***************************************************************************)
(* The entry points of the tools and their environment checks.             *)
(***************************************************************************)
Tools == {"ingest", "daily_read", "email_daily", "query_news",
          "migrate_to_namespace", "migrate_kindle_source"}

EnvNames == {"PINECONE_API_KEY", "PINECONE_INDEX_HOST", "RESEND_API_KEY", "EMAIL_TO",
             "ESV_API_KEY"}

\* what validate_env of every tool tests
PineconeEnv == {"PINECONE_API_KEY", "PINECONE_INDEX_HOST"}

\* what validate_email_env tests
EmailEnv == {"RESEND_API_KEY", "EMAIL_TO"}

\* the variables the checks of a tool's entry point test
RequiredEnv(tool) == IF tool = "email_daily" THEN PineconeEnv \cup EmailEnv ELSE PineconeEnv

\* the external calls of a tool's work
WorkCalls(tool) ==
    CASE tool = "ingest" -> {"embedding", "vector_store"}
      [] tool = "query_news" -> {"embedding", "vector_store"}
      [] tool = "email_daily" -> {"vector_store", "email"}
      [] OTHER -> {"vector_store"}

EnvInit ==
    /\ e_tool \in Tools
    /\ e_present \in SUBSET EnvNames
    /\ epc = "validate_env"
    /\ exit_status = -1
    /\ ext_calls = {}

\* validate_env: a variable is missing, sys.exit(1)
EnvValidateExit ==
    /\ epc = "validate_env"
    /\ ~(PineconeEnv \subseteq e_present)
    /\ epc' = "exited"
    /\ exit_status' = 1
    /\ UNCHANGED <<e_tool, e_present, ext_calls, outsideEnv>>

\* validate_env returns; email_daily goes on to validate_email_env
EnvValidatePass ==
    /\ epc = "validate_env"
    /\ PineconeEnv \subseteq e_present
    /\ epc' = IF e_tool = "email_daily" THEN "validate_email_env" ELSE "work"
    /\ UNCHANGED <<e_tool, e_present, exit_status, ext_calls, outsideEnv>>

\* validate_email_env returns False: main returns, the process ends normally
EnvEmailReturn ==
    /\ epc = "validate_email_env"
    /\ ~(EmailEnv \subseteq e_present)
    /\ epc' = "exited"
    /\ exit_status' = 0
    /\ UNCHANGED <<e_tool, e_present, ext_calls, outsideEnv>>

\* validate_email_env returns True
EnvEmailPass ==
    /\ epc = "validate_email_env"
    /\ EmailEnv \subseteq e_present
    /\ epc' = "work"
    /\ UNCHANGED <<e_tool, e_present, exit_status, ext_calls, outsideEnv>>

\* the clients are built and the work of the tool is done
EnvWork ==
    /\ epc = "work"
    /\ ext_calls' = WorkCalls(e_tool)
    /\ epc' = "worked"
    /\ UNCHANGED <<e_tool, e_present, exit_status, outsideEnv>>

\* main returns
EnvReturn ==
    /\ epc = "worked"
    /\ epc' = "exited"
    /\ exit_status' = 0
    /\ UNCHANGED <<e_tool, e_present, ext_calls, outsideEnv>>

EnvNext ==
    \/ EnvValidateExit
    \/ EnvValidatePass
    \/ EnvEmailReturn
    \/ EnvEmailPass
    \/ EnvWork
    \/ EnvReturn

(***************************************************************************)
(* migrate_kindle_source.py: tag the vectors that have no source.          *)
(***************************************************************************)
\* metadata = {}
EmptyMeta == [k \in {} |-> ""]

\* the metadata a stored vector can have; bare marks a vector stored with
\* no metadata at all (fetch gives None)
StoredMetas ==
    {[bare |-> TRUE, metadata |-> EmptyMeta],
     [bare |-> FALSE, metadata |-> EmptyMeta],
     [bare |-> FALSE, metadata |-> [content |-> "c"]],
     [bare |-> FALSE, metadata |-> [content |-> "c", source |-> "Bible"]],
     [bare |-> FALSE, metadata |-> [content |-> "c", source |-> "Kindle"]]}

\* the values of the vector stored under an id
ValuesOf(id) == <<"values", id>>

\* the partitions the default namespace can be
DefaultPartitions ==
    UNION {[S -> {[values |-> <<>>, bare |-> m.bare, metadata |-> m.metadata] :
                     m \in StoredMetas}] : S \in SUBSET Ids}

\* the partitions another namespace can be: vectors with no source tag
OtherPartitions ==
    {[id \in S |-> [values |-> ValuesOf(id), bare |-> FALSE, metadata |-> [content |-> "c"]]] :
        S \in SUBSET Ids}

\* a partition with the values of each vector filled in
WithValues(part) ==
    [id \in DOMAIN part |-> [values |-> ValuesOf(id), bare |-> part[id].bare,
                             metadata |-> part[id].metadata]]

\* no metadata ever has the key
HasSourceNever(metadata) == FALSE

\* 'source' in metadata
HasSource(metadata) == "source" \in DOMAIN metadata

\* metadata['source'] = 'Kindle'
WithKindleSource(metadata) ==
    [k \in (DOMAIN metadata) \cup {"source"} |->
        IF k = "source" THEN "Kindle" ELSE metadata[k]]

\* the ids of a fetched batch that go into updates
UpdateIds(part, fetched) ==
    {id \in SeqRange(fetched) : id \in DOMAIN part /\ ~HasSource(part[id].metadata)}

\* index.upsert(vectors=updates) on the default namespace
KindleUpsert(part, ids) ==
    [id \in DOMAIN part |->
        IF id \in ids
           THEN [values |-> part[id].values, bare |-> FALSE,
                 metadata |-> WithKindleSource(part[id].metadata)]
           ELSE part[id]]

KindleInit ==
    /\ k_store \in {[ns \in Namespaces |-> IF ns = "" THEN WithValues(d) ELSE o] :
                       d \in DefaultPartitions, o \in OtherPartitions}
    /\ kpc = "list"
    /\ k_all_ids = <<>>
    /\ ki = 0
    /\ k_runs = 1
    /\ k_start = k_store
    /\ k_written = {}
    /\ k_prev_done = FALSE

\* for ids_batch in index.list(): all_ids.extend(ids_batch)
KindleList ==
    /\ kpc = "list"
    /\ k_all_ids' = SortedSeq(DOMAIN k_store[""])
    /\ ki' = 0
    /\ kpc' = "loop"
    /\ UNCHANGED <<k_store, k_runs, k_start, k_written, k_prev_done, outsideKindle>>

\* one batch: fetch, and updates is not empty: index.upsert(vectors=updates)
KindleBatchUpsert ==
    /\ kpc = "loop"
    /\ ki < Len(k_all_ids)
    /\ LET updates == UpdateIds(k_store[""], Slice(k_all_ids, ki, KindleBatchSize))
       IN /\ updates # {}
          /\ k_store' = [k_store EXCEPT ![""] = KindleUpsert(@, updates)]
          /\ k_written' = k_written \cup updates
    /\ ki' = ki + KindleBatchSize
    /\ UNCHANGED <<kpc, k_all_ids, k_runs, k_start, k_prev_done, outsideKindle>>

\* one batch: fetch, and every vector of it has a source: nothing is written
KindleBatchSkip ==
    /\ kpc = "loop"
    /\ ki < Len(k_all_ids)
    /\ UpdateIds(k_store[""], Slice(k_all_ids, ki, KindleBatchSize)) = {}
    /\ ki' = ki + KindleBatchSize
    /\ UNCHANGED <<k_store, kpc, k_all_ids, k_runs, k_start, k_written, k_prev_done,
                   outsideKindle>>

\* index.fetch or index.upsert raises: nothing catches it, the script dies
\* with the batch unwritten
KindleRaise ==
    /\ kpc = "loop"
    /\ ki < Len(k_all_ids)
    /\ kpc' = "raised"
    /\ UNCHANGED <<k_store, k_all_ids, ki, k_runs, k_start, k_written, k_prev_done,
                   outsideKindle>>

\* the loop is over: "Migration complete!"
KindleComplete ==
    /\ kpc = "loop"
    /\ ki >= Len(k_all_ids)
    /\ kpc' = "done"
    /\ UNCHANGED <<k_store, k_all_ids, ki, k_runs, k_start, k_written, k_prev_done,
                   outsideKindle>>

\* the script is started again
KindleRerun ==
    /\ kpc \in {"done", "raised"}
    /\ k_runs < MaxKindleRuns
    /\ k_runs' = k_runs + 1
    /\ k_prev_done' = (k_prev_done \/ kpc = "done")
    /\ k_start' = k_store
    /\ k_written' = {}
    /\ k_all_ids' = <<>>
    /\ ki' = 0
    /\ kpc' = "list"
    /\ UNCHANGED <<k_store, outsideKindle>>

KindleNext ==
    \/ KindleList
    \/ KindleBatchUpsert
    \/ KindleBatchSkip
    \/ KindleRaise
    \/ KindleComplete
    \/ KindleRerun

(***************************************************************************)
(* The tools of one setup on one index: which namespace each writes, moves *)
(* to, and queries.                                                        *)
(***************************************************************************)
\* batch_upsert: index.upsert(vectors=batch, namespace=PINECONE_NAMESPACE)
ClippingsWriteNamespace(env) == env

\* upsert_bible_verses: index.upsert(vectors=batch_vectors), no namespace
BibleWriteNamespace == ""

\* migrate_to_namespace(target_namespace=PINECONE_NAMESPACE)
MigrateTargetNamespace(env) == env

\* get_random_highlights: index.query(...) with no namespace argument
SamplerNamespace == ""

\* query_library: index.query(..., namespace=PINECONE_NAMESPACE)
QueryLibraryNamespace(env) == env

NoResult == [tool |-> "none", namespace |-> "", ids |-> {}]

AgreeInit ==
    /\ a_namespace \in Namespaces
    /\ a_store = [ns \in Namespaces |-> EmptyPartition]
    /\ a_writer = [id \in Ids |-> "none"]
    /\ a_moved = {}
    /\ a_result = NoResult

\* ingest_clippings writes one more record through batch_upsert
AgreeIngestClippings ==
    /\ \E id \in Ids, rec \in Recs :
          /\ a_writer[id] = "none"
          /\ a_store' = StoreUpsert(a_store, ClippingsWriteNamespace(a_namespace),
                                    [i \in {id} |-> rec])
          /\ a_writer' = [a_writer EXCEPT ![id] = "clippings"]
    /\ UNCHANGED <<a_namespace, a_moved, a_result, outsideAgree>>

\* upsert_bible_verses writes one more record
AgreeUpsertBible ==
    /\ \E id \in Ids, rec \in Recs :
          /\ a_writer[id] = "none"
          /\ a_store' = StoreUpsert(a_store, BibleWriteNamespace, [i \in {id} |-> rec])
          /\ a_writer' = [a_writer EXCEPT ![id] = "bible"]
    /\ UNCHANGED <<a_namespace, a_moved, a_result, outsideAgree>>

\* a confirmed run of migrate_to_namespace to its end: every id listed in the
\* default namespace is fetched, upserted to the target and deleted from ""
AgreeMigrate ==
    /\ IdsIn(a_store[SourceNamespace]) # {}
    /\ LET ids == IdsIn(a_store[SourceNamespace])
           fetched == StoreFetch(a_store, SourceNamespace, ids)
       IN /\ a_store' = StoreDelete(StoreUpsert(a_store, MigrateTargetNamespace(a_namespace),
                                                fetched),
                                    SourceNamespace, ids)
          /\ a_moved' = a_moved \cup ids
    /\ UNCHANGED <<a_namespace, a_writer, a_result, outsideAgree>>

\* get_random_highlights: one top-1 query, answered with any record of the
\* namespace queried, or with no match when it is empty
AgreeSample ==
    /\ \E hit \in {S \in SUBSET IdsIn(a_store[SamplerNamespace]) :
                      Cardinality(S) = IF IdsIn(a_store[SamplerNamespace]) = {} THEN 0 ELSE 1} :
          a_result' = [tool |-> "sampler", namespace |-> SamplerNamespace, ids |-> hit]
    /\ UNCHANGED <<a_namespace, a_store, a_writer, a_moved, outsideAgree>>

\* query_library: the matches are records of the namespace queried
AgreeQueryLibrary ==
    /\ a_result' = [tool |-> "query_library",
                    namespace |-> QueryLibraryNamespace(a_namespace),
                    ids |-> IdsIn(a_store[QueryLibraryNamespace(a_namespace)])]
    /\ UNCHANGED <<a_namespace, a_store, a_writer, a_moved, outsideAgree>>

AgreeNext ==
    \/ AgreeIngestClippings
    \/ AgreeUpsertBible
    \/ AgreeMigrate
    \/ AgreeSample
    \/ AgreeQueryLibrary

(***************************************************************************)
(* Specifications: each tool runs on its own; the other one is not started.*)
(***************************************************************************)
MigIdle ==
    /\ store = [ns \in Namespaces |-> EmptyPartition]
    /\ target_namespace = "aaron"
    /\ env_ok = TRUE
    /\ mpc = "idle"
    /\ confirm = <<>>
    /\ all_ids = <<>>
    /\ mi = 0
    /\ batch_ids = <<>>
    /\ vectors_to_upsert = EmptyVectors
    /\ migrated_count = 0
    /\ mig_runs = 0
    /\ orig_source = EmptyPartition
    /\ source_at_list = EmptyPartition
    /\ store_at_prompt = store
    /\ acked = {}
    /\ deleted = {}
    /\ mutating_calls = 0
    /\ interrupted = FALSE

FetchIdle ==
    /\ fetch_env = "ok"
    /\ references = <<>>
    /\ file = FileAbsent
    /\ fpc = "idle"
    /\ fetched_verses = <<>>
    /\ metadatas_to_embed = <<>>
    /\ fi = 1
    /\ attempt = 0
    /\ wait_time = 0
    /\ fetch_runs = 0
    /\ get_text_calls = ZeroCounts
    /\ outcomes = NoSeqs
    /\ waits = NoSeqs
    /\ sleeps = ZeroCounts
    /\ ckpt_writes = ZeroCounts
    /\ succeeded = {}
    /\ loaded_refs = {}
    /\ checkpointed = {}
    /\ error_refs = {}

CkptIdle ==
    /\ ck_pc = "idle"
    /\ ck_file = FileAbsent
    /\ ck_dict = <<>>
    /\ ck_records = 0
    /\ ck_loads = 0
    /\ ck_last = <<>>
    /\ ck_prev = <<>>

SampleIdle ==
    /\ s_count = 0
    /\ s_source = "None"
    /\ spc = "idle"
    /\ highlights = <<>>
    /\ seen_ids = {}
    /\ attempts = 0
    /\ query_calls = 0
    /\ s_errors = 0
    /\ s_at_error = -1
    /\ s_rejects = {}

IngestIdle ==
    /\ in_tool = "none"
    /\ in_namespace = "aaron"
    /\ in_found = FALSE
    /\ in_records = <<>>
    /\ ipc = "idle"
    /\ ii = 0
    /\ vectors = <<>>
    /\ iu = 0
    /\ in_store = [ns \in Namespaces |-> NoVectors]
    /\ embed_calls = <<>>
    /\ embed_failed = {}
    /\ upsert_calls = <<>>
    /\ upsert_failed = {}
    /\ in_runs = 0
    /\ first_ids = {}
    /\ clean_runs = TRUE

ParseIdle ==
    /\ raw_lines = <<>>
    /\ ppc = "idle"
    /\ parsed = NoHighlight

EnvIdle ==
    /\ e_tool = "none"
    /\ e_present = {}
    /\ epc = "idle"
    /\ exit_status = -1
    /\ ext_calls = {}

KindleIdle ==
    /\ k_store = [ns \in Namespaces |-> EmptyVectors]
    /\ kpc = "idle"
    /\ k_all_ids = <<>>
    /\ ki = 0
    /\ k_runs = 0
    /\ k_start = [ns \in Namespaces |-> EmptyVectors]
    /\ k_written = {}
    /\ k_prev_done = FALSE

AgreeIdle ==
    /\ a_namespace = "aaron"
    /\ a_store = [ns \in Namespaces |-> EmptyPartition]
    /\ a_writer = [id \in Ids |-> "none"]
    /\ a_moved = {}
    /\ a_result = NoResult

\* the migration script starts; the fetch job is not running
InitMig == MigInit /\ FetchIdle /\ CkptIdle /\ SampleIdle /\ IngestIdle /\ ParseIdle /\ EnvIdle /\ KindleIdle /\ AgreeIdle

\* the fetch job starts; the migration script is not running
InitFetch == FetchInit /\ MigIdle /\ CkptIdle /\ SampleIdle /\ IngestIdle /\ ParseIdle /\ EnvIdle /\ KindleIdle /\ AgreeIdle

\* the checkpoint operations are applied to a file
InitCkpt == CkptInit /\ MigIdle /\ FetchIdle /\ SampleIdle /\ IngestIdle /\ ParseIdle /\ EnvIdle /\ KindleIdle /\ AgreeIdle

\* get_random_highlights is called
InitSample == SampleInit /\ MigIdle /\ FetchIdle /\ CkptIdle /\ IngestIdle /\ ParseIdle /\ EnvIdle /\ KindleIdle /\ AgreeIdle

\* ingest_clippings or upsert_bible_verses is called
InitIngest == IngestInit /\ MigIdle /\ FetchIdle /\ CkptIdle /\ SampleIdle /\ ParseIdle /\ EnvIdle /\ KindleIdle /\ AgreeIdle

\* an ingestion that may be run again on its input
InitReingest == ReingestInit /\ MigIdle /\ FetchIdle /\ CkptIdle /\ SampleIdle /\ ParseIdle /\ EnvIdle /\ KindleIdle /\ AgreeIdle

SpecMig == InitMig /\ [][MigNext]_vars

SpecFetch == InitFetch /\ [][FetchNext]_vars

SpecCkpt == InitCkpt /\ [][CkptNext]_vars

SpecSample == InitSample /\ [][SampleNext]_vars

SpecIngest == InitIngest /\ [][IngestNext]_vars

SpecReingest == InitReingest /\ [][ReingestNext]_vars

\* _parse_single is called on one entry
InitParse == ParseInit /\ MigIdle /\ FetchIdle /\ CkptIdle /\ SampleIdle /\ IngestIdle /\ EnvIdle /\ KindleIdle /\ AgreeIdle

SpecParse == InitParse /\ [][ParseNext]_vars

\* the entry point of a tool is started
InitEnv == EnvInit /\ MigIdle /\ FetchIdle /\ CkptIdle /\ SampleIdle /\ IngestIdle /\ ParseIdle /\ KindleIdle /\ AgreeIdle

SpecEnv == InitEnv /\ [][EnvNext]_vars

\* migrate_kindle_source is started
InitKindle == KindleInit /\ MigIdle /\ FetchIdle /\ CkptIdle /\ SampleIdle /\ IngestIdle /\ ParseIdle /\ EnvIdle /\ AgreeIdle

SpecKindle == InitKindle /\ [][KindleNext]_vars

\* the tools of one setup work on an empty index
InitAgree == AgreeInit /\ MigIdle /\ FetchIdle /\ CkptIdle /\ SampleIdle /\ IngestIdle /\ ParseIdle /\ EnvIdle /\ KindleIdle

SpecAgree == InitAgree /\ [][AgreeNext]_vars

\* the call is sequential and every query returns or raises: it keeps stepping
SpecSampleLive == InitSample /\ [][SampleNext]_vars /\ WF_vars(SampleNext)

\* one run of the fetch job that nothing kills
FetchRun ==
    \/ FetchSkipped
    \/ FetchReadReferences
    \/ FetchLoadCheckpoint
    \/ FetchSkipMissing
    \/ FetchPassThrough
    \/ FetchBeginRetries
    \/ FetchSuccess
    \/ FetchEmptyPassage
    \/ FetchRateLimited
    \/ FetchOtherError
    \/ FetchBackoff
    \/ FetchOpenCheckpoint
    \/ FetchDumpCheckpoint
    \/ FetchPolitenessDelay
    \/ FetchComplete

\* the job is sequential and every call and sleep returns: it keeps stepping
SpecFetchLive == InitFetch /\ [][FetchRun]_vars /\ WF_vars(FetchRun)

(***************************************************************************)
(* Properties of the namespace migration.                                  *)
(***************************************************************************)

\* C1: an id is deleted from the source only after the target acknowledged
\* an upsert that contained it, and in every state of a run every record the
\* source held when the run started is present in the source or in the target.
C1_NoRecordLost ==
    /\ deleted \subseteq acked
    /\ \A id \in IdsIn(store_at_prompt[SourceNamespace]) :
          \/ store[SourceNamespace][id] # NoRec
          \/ store[target_namespace][id] # NoRec

\* C2: after a run that completed without error the source holds none of the
\* listed ids and the target holds each of them with the values and metadata
\* the source held.
C2_CompleteRunMoved ==
    mpc = "done" =>
        \A id \in SeqRange(all_ids) :
            /\ store[SourceNamespace][id] = NoRec
            /\ store[target_namespace][id] = source_at_list[id]

\* C3: when an interrupted run is followed by a run that completes, the
\* source is empty and the target holds every record the source originally
\* held, with its original values and metadata.
C3_ResumeCompletes ==
    (interrupted /\ mpc = "done") =>
        /\ IdsIn(store[SourceNamespace]) = {}
        /\ \A id \in IdsIn(orig_source) : store[target_namespace][id] = orig_source[id]

\* C4: upsert and delete are issued only in a run whose prompt was answered
\* "y" or "Y"; after any other answer the store is as it was at the prompt.
C4_NoMutationWithoutConfirm ==
    /\ mutating_calls > 0 => confirm \in {<<"y">>, <<"Y">>}
    /\ confirm \notin {<<"y">>, <<"Y">>} => store = store_at_prompt

\* a second run is cancelled with the answer "yes" after a first run moved
\* records, and records are still waiting in the source
C4_Witness ==
    /\ mpc = "cancelled"
    /\ confirm = <<"y", "e", "s">>
    /\ orig_source # store[SourceNamespace]
    /\ IdsIn(store[SourceNamespace]) # {}
(***************************************************************************)
(* Properties of fetch_bible_verses.                                       *)
(***************************************************************************)

\* C5: when the fetch job has died, during a checkpoint write or anywhere
\* else, every entry that an earlier write made durable can still be read
\* from the checkpoint file.
C5_CheckpointCrashSafe ==
    fpc = "crashed" => checkpointed \subseteq Readable(file)

\* C6: a reference that is in the checkpoint loaded at the start of the run
\* gets no get_text call, no backoff wait and no politeness delay, and once
\* the loop has passed it the entry of the checkpoint is in the output lists.
C6_CheckpointedNeverFetched ==
    \A k \in 1..Len(references) :
        references[k] \in loaded_refs =>
            /\ get_text_calls[k] = 0
            /\ waits[k] = <<>>
            /\ sleeps[k] = 0
            /\ (fi > k =>
                  \E e \in SeqRange(metadatas_to_embed) :
                      e = DictGet(fetched_verses, references[k]) /\ e \in checkpointed)

\* the run is over, a reference of the loaded checkpoint was passed through
\* and another reference was fetched in the same run
C6_Witness ==
    /\ fpc = "done"
    /\ \E k \in 1..Len(references) : references[k] \in loaded_refs
    /\ \E k \in 1..Len(references) : get_text_calls[k] > 0

\* C7: whenever the job is at a fetch attempt, a backoff, a politeness delay
\* or the choice of the next reference, the checkpoint file holds every
\* reference whose fetch succeeded so far in this run; so the write of a
\* success precedes its politeness delay and every later fetch.
C7_CheckpointBeforeNextFetch ==
    fpc \in {"try", "backoff", "sleep", "next", "done"} =>
        \A k \in succeeded :
            \E e \in Readable(file) : e.reference = references[k]

\* a fetch attempt for the second reference is about to be issued after the
\* first one succeeded
C7_Witness ==
    /\ fpc = "try"
    /\ fi = 2
    /\ 1 \in succeeded

\* C8 as stated: the wait after the n-th rate-limited attempt is 30*n seconds
\* and every backoff wait is followed by a further attempt for the same
\* reference.
C8_EveryWaitThenRetry ==
    /\ [](fpc = "backoff" => wait_time = 30 * get_text_calls[fi])
    /\ [][(fpc = "backoff" /\ fpc' \notin {"backoff", "crashed"})
             => (fpc' = "try" /\ fi' = fi)]_vars

\* C8 amended: the wait after the n-th rate-limited attempt is 30*n seconds;
\* after attempts 1 and 2 the wait is followed by a further attempt for the
\* same reference, after attempt 3 the wait is followed by the next reference.
C8_WaitThenRetryBelowCeiling ==
    /\ [](fpc = "backoff" => wait_time = 30 * get_text_calls[fi])
    /\ [][(fpc = "backoff" /\ fpc' \notin {"backoff", "crashed"})
             => IF get_text_calls[fi] < 3
                   THEN fpc' = "try" /\ fi' = fi
                   ELSE fpc' = "next" /\ fi' = fi + 1]_vars

\* the third attempt was rate limited and its wait of 90 seconds is over
C8_Witness ==
    /\ fpc = "next"
    /\ \E k \in 1..Len(references) :
          /\ fi = k + 1
          /\ outcomes[k] = <<"throttled", "throttled", "throttled">>
          /\ waits[k] = <<30, 60, 90>>

\* C9: a reference that was rate limited on attempts 1..n-1 and fetched on
\* attempt n has, once the loop has passed it, exactly the n-1 waits
\* 30, 60, ... in that order and exactly one checkpoint write.
C9_WaitsThenOneWrite ==
    \A k \in 1..Len(references) :
        (fi > k /\ outcomes[k] # <<>> /\ outcomes[k][Len(outcomes[k])] = "ok"
              /\ \A m \in 1..(Len(outcomes[k]) - 1) : outcomes[k][m] = "throttled") =>
            /\ Len(outcomes[k]) <= 3
            /\ waits[k] = [m \in 1..(Len(outcomes[k]) - 1) |-> 30 * m]
            /\ ckpt_writes[k] = 1

\* rate limit, rate limit, success: two waits and one write
C9_Witness ==
    \E k \in 1..Len(references) :
        /\ fi > k
        /\ outcomes[k] = <<"throttled", "throttled", "ok">>
        /\ waits[k] = <<30, 60>>
        /\ ckpt_writes[k] = 1

\* C10: in one run no position of the reference list gets more than 3
\* get_text calls.
C10_AtMostThreeAttempts ==
    \A k \in Positions : get_text_calls[k] <= 3

\* a reference has used all three attempts
C10_Witness ==
    \E k \in 1..Len(references) :
        /\ get_text_calls[k] = 3
        /\ outcomes[k] = <<"throttled", "throttled", "error">>

\* C11: a call that raised an error other than a rate limit is the last call
\* for its position: no wait follows it, no checkpoint write is made for the
\* position and the loop has moved on; unless another position of the same
\* reference succeeded the file does not hold the reference, and the next run
\* issues a get_text call for every reference given up that way.
C11_OtherErrorAbandons ==
    \A k \in 1..Len(references) :
        /\ \A m \in 1..Len(outcomes[k]) :
              outcomes[k][m] = "error" =>
                  /\ m = Len(outcomes[k])
                  /\ Len(waits[k]) = m - 1
                  /\ ckpt_writes[k] = 0
                  /\ k \notin succeeded
                  /\ fi > k
                  /\ (\A j \in succeeded : references[j] # references[k]) =>
                        \A e \in Readable(file) : e.reference # references[k]
        /\ (references[k] \in error_refs /\ fi > k) =>
              \E j \in 1..k : references[j] = references[k] /\ get_text_calls[j] >= 1

\* the second run fetches a reference that the first run gave up on after one
\* rate limit and an error
C11_Witness ==
    /\ fetch_runs = 2
    /\ \E k \in 1..Len(references) :
          /\ references[k] \in error_refs
          /\ outcomes[k] = <<"ok">>
          /\ fi > k

\* C12: a run that nothing kills reaches the end of the reference list
\* whatever the remote service returns; an exhausted retry loop, an error or an
\* empty passage is followed by the next reference, and at the end every
\* reference of the list was passed through or attempted and every fetched
\* one is in the checkpoint file.
C12_FailureNeverAborts ==
    /\ (fetch_env = "ok") => <>(fpc = "done")
    /\ [][(fpc \in {"try", "backoff"} /\ fpc' \notin {"try", "backoff", "open"})
             => (fpc' = "next" /\ fi' = fi + 1)]_vars
    /\ [](fpc = "done" =>
            \A k \in 1..Len(references) :
                /\ references[k] # NoRef =>
                      \/ get_text_calls[k] >= 1
                      \/ \E e \in SeqRange(metadatas_to_embed) : e.reference = references[k]
                /\ k \in succeeded => \E e \in Readable(file) : e.reference = references[k])

\* the first reference used up its three attempts, the second was fetched
\* and the run is over
C12_Witness ==
    /\ fpc = "done"
    /\ Len(references) = 2
    /\ outcomes[1] = <<"throttled", "throttled", "throttled">>
    /\ 2 \in succeeded

(***************************************************************************)
(* Properties of the checkpoint operations.                                *)
(***************************************************************************)

\* C13: after any sequence of loads and recordings the dict, and the file
\* once it has been written, hold at most one entry per reference; the
\* reference recorded last has exactly one entry, with the content recorded
\* last; and recording again what was recorded last changes neither the dict
\* nor the file.
C13_OneEntryPerReference ==
    /\ [](/\ \A a, b \in 1..Len(ck_dict) :
                ck_dict[a].reference = ck_dict[b].reference => a = b
          /\ ck_records > 0 =>
                /\ \A a, b \in 1..Len(ck_file.entries) :
                      ck_file.entries[a].reference = ck_file.entries[b].reference => a = b
                /\ Cardinality({a \in 1..Len(ck_file.entries) :
                                  ck_file.entries[a].reference = ck_last[1]}) = 1
                /\ \A a \in 1..Len(ck_file.entries) :
                      ck_file.entries[a].reference = ck_last[1]
                          => ck_file.entries[a].content = ck_last[2])
    /\ [][(ck_records' = ck_records + 1 /\ ck_last' = ck_last)
             => (ck_dict' = ck_dict /\ ck_file' = ck_file)]_vars

\* a reference was recorded twice in a row with different contents
C13_Witness ==
    /\ ck_records >= 2
    /\ ck_prev # <<>>
    /\ ck_prev[1] = ck_last[1]
    /\ ck_prev[2] # ck_last[2]
    /\ Len(ck_file.entries) = 2

(***************************************************************************)
(* Properties of get_random_highlights.                                    *)
(***************************************************************************)

\* C14: the list of accepted matches never holds two matches with the same
\* id.
C14_NoDuplicateIds ==
    \A a, b \in 1..Len(highlights) : highlights[a].id = highlights[b].id => a = b

\* the call returned two matches after the store had answered with an id
\* that was accepted before
C14_Witness ==
    /\ spc = "done"
    /\ Len(highlights) = 2
    /\ "seen" \in s_rejects

\* C15: every accepted match has a content key whose text holds two
\* non-whitespace characters with whitespace between them, that is more
\* than one token.
C15_MoreThanOneToken ==
    \A a \in 1..Len(highlights) :
        /\ highlights[a].kind = "content"
        /\ \E i, j, k \in 1..Len(highlights[a].content) :
              /\ i < j /\ j < k
              /\ highlights[a].content[i] \notin {" ", "\n"}
              /\ highlights[a].content[j] \in {" ", "\n"}
              /\ highlights[a].content[k] \notin {" ", "\n"}

\* the call returned a match after the store had answered with a one-token
\* content, an empty content and a match without content
C15_Witness ==
    /\ spc = "done"
    /\ Len(highlights) >= 1
    /\ {"single", "empty", "missing"} \subseteq s_rejects

\* C16: the call returns; it issues at most count*3 queries and accepts at
\* most count matches; no query is issued once count matches are accepted;
\* and a call that returns fewer than count matches has used all count*3
\* queries.
C16_BoundedSampling ==
    /\ <>(spc = "done")
    /\ [](query_calls <= s_count * 3 /\ Len(highlights) <= s_count)
    /\ [][Len(highlights) >= s_count => query_calls' = query_calls]_vars
    /\ [](spc = "done" =>
            \/ Len(highlights) = s_count
            \/ Len(highlights) < s_count /\ query_calls = s_count * 3)

\* the budget of six queries ran out with one match of the two asked for
C16_Witness ==
    /\ spc = "done"
    /\ s_count = 2
    /\ query_calls = 6
    /\ Len(highlights) = 1

\* C17: an iteration that ends in the except branch uses one attempt, leaves
\* the accepted matches and the seen ids as they were and stays in the loop.
C17_QueryErrorContained ==
    [][s_errors' = s_errors + 1 =>
          /\ attempts' = attempts + 1
          /\ highlights' = highlights
          /\ seen_ids' = seen_ids
          /\ spc' = "loop"]_vars

\* a query raised when one match was held, and the call went on to return
\* two matches
C17_Witness ==
    /\ spc = "done"
    /\ s_at_error = 1
    /\ Len(highlights) = 2

(***************************************************************************)
(* Properties of the ingestion (ingest_clippings, batch_upsert,            *)
(* upsert_bible_verses).                                                   *)
(***************************************************************************)
RECURSIVE Flatten(_)
\* the vectors of a list of write calls, in the order they were sent
Flatten(calls) == IF calls = <<>> THEN <<>> ELSE Head(calls) \o Flatten(Tail(calls))

\* offset of the embedding batch that holds input position p
BatchOffsetOf(p) == ((p - 1) \div EmbedBatchSize) * EmbedBatchSize

\* input positions below the loop offset i whose batch was embedded
EmbeddedPositions(i) ==
    {p \in 1..Len(in_records) : p <= i /\ BatchOffsetOf(p) \notin embed_failed}

\* the vector entry a record must get: its own id and metadata with the
\* embedding of its own content
ExpectedVector(r) ==
    IF in_tool = "clippings"
       THEN ClipVector(r, EmbedOf(r.content))
       ELSE [id |-> r.id,
             values |-> EmbedOf(r.content),
             metadata |-> [reference |-> r.reference, content |-> r.content]]

\* the expected vectors of a set of input positions, in input order
ExpectedVectors(P) ==
    LET ps == SortedSeq(P)
    IN [a \in 1..Len(ps) |-> ExpectedVector(in_records[ps[a]])]

\* the vector entries produced so far: the collected list of ingest_clippings,
\* the batch lists of upsert_bible_verses
Produced == IF in_tool = "clippings" THEN vectors ELSE Flatten(upsert_calls)

\* the namespace the ingestion writes to
WriteNamespace == IF in_tool = "clippings" THEN in_namespace ELSE ""

\* C18: the records are embedded in consecutive, ordered batches of at most
\* the batch size, with exactly one embedding call per batch, and the vector
\* entries produced are, in input order, each embedded record's own id and
\* metadata with the embedding of that record's own content.
C18_OrderedBatchesPaired ==
    /\ \A k \in 1..Len(embed_calls) :
          LET lo == (k - 1) * EmbedBatchSize + 1
              hi == IF k * EmbedBatchSize < Len(in_records)
                       THEN k * EmbedBatchSize ELSE Len(in_records)
          IN /\ lo <= hi
             /\ Len(embed_calls[k]) = hi - lo + 1
             /\ Len(embed_calls[k]) <= EmbedBatchSize
             /\ \A j \in 1..Len(embed_calls[k]) :
                   embed_calls[k][j] = in_records[lo + j - 1].content
    /\ Len(embed_calls) * EmbedBatchSize = ii
    /\ (ipc \in {"upsert", "done", "raised"}) =>
          /\ ii >= Len(in_records)
          /\ ii < Len(in_records) + EmbedBatchSize
    /\ Produced = ExpectedVectors(EmbeddedPositions(ii))

\* a full batch of two records with different contents was embedded after a
\* first batch, and its vectors were produced
C18_Witness ==
    /\ in_tool = "clippings"
    /\ Len(embed_calls) >= 2
    /\ Len(vectors) >= 4
    /\ vectors[1].values # vectors[2].values
    /\ vectors[2].metadata.title # vectors[3].metadata.title

\* C19: when the run is over and no write call failed, the vectors written
\* are exactly those of the records whose batch was embedded: a batch whose
\* embedding call failed is left out whole, every other batch, before and
\* after it, was embedded and is in the store.
C19_FailedBatchOmitted ==
    (ipc = "done" /\ upsert_failed = {}) =>
        /\ Len(embed_calls) * EmbedBatchSize >= Len(in_records)
        /\ Flatten(upsert_calls) = ExpectedVectors(EmbeddedPositions(Len(in_records)))
        /\ DOMAIN in_store[WriteNamespace] =
              {ExpectedVector(in_records[p]).id : p \in EmbeddedPositions(Len(in_records))}
        /\ \A p \in 1..Len(in_records) :
              BatchOffsetOf(p) \in embed_failed =>
                 \A k \in 1..Len(upsert_calls) : \A j \in 1..Len(upsert_calls[k]) :
                    upsert_calls[k][j].id # ExpectedVector(in_records[p]).id
                    \/ \E q \in EmbeddedPositions(Len(in_records)) :
                          ExpectedVector(in_records[q]) = upsert_calls[k][j]

\* ingest_clippings ended after the embedding of a middle batch failed: the
\* batches before and after it are in the store
C19_Witness ==
    /\ in_tool = "clippings"
    /\ ipc = "done"
    /\ \E f \in embed_failed :
          /\ f > 0
          /\ f + EmbedBatchSize < Len(in_records)
          /\ 0 \notin embed_failed
          /\ f + EmbedBatchSize \notin embed_failed
    /\ Len(Flatten(upsert_calls)) = Len(in_records) - EmbedBatchSize

\* C20: batch_upsert sends the vectors in consecutive, ordered batches of at
\* most the batch size, one write call per batch, and when it is over a
\* write call has been issued for every batch, whether or not an earlier
\* write call failed.
C20_WriteFailureContained ==
    /\ in_tool = "clippings" =>
          \A k \in 1..Len(upsert_calls) :
             upsert_calls[k] = Slice(vectors, (k - 1) * UpsertBatchSize, UpsertBatchSize)
    /\ (in_tool = "clippings" /\ ipc \in {"done", "raised"}) =>
          Len(upsert_calls) * UpsertBatchSize >= Len(vectors)

\* C21: when ingest_clippings has run again on the same input and no
\* embedding or write call failed in any run, the written namespace holds
\* exactly the ids it held when the first run ended, one per distinct content
\* of the input, whatever the titles; and a later run never removes an id.
C21_ReingestIdempotent ==
    /\ (in_tool = "clippings" /\ in_runs >= 2) => first_ids \subseteq DOMAIN in_store[in_namespace]
    /\ (/\ in_tool = "clippings"
        /\ in_runs >= 2
        /\ ipc = "done"
        /\ clean_runs
        /\ embed_failed = {}
        /\ upsert_failed = {}) =>
           /\ DOMAIN in_store[in_namespace] = first_ids
           /\ Cardinality(DOMAIN in_store[in_namespace]) =
                 Cardinality({in_records[p].content : p \in 1..Len(in_records)})
           /\ \A p \in 1..Len(in_records) :
                 /\ Md5(in_records[p].content) \in DOMAIN in_store[in_namespace]
                 /\ in_store[in_namespace][Md5(in_records[p].content)].metadata.content =
                       in_records[p].content

\* a second run of ingest_clippings ended on an input of three highlights,
\* two of them with the same content under different titles
C21_Witness ==
    /\ in_tool = "clippings"
    /\ in_runs = 2
    /\ ipc = "done"
    /\ clean_runs
    /\ embed_failed = {}
    /\ Len(upsert_calls) = 2
    /\ Len(in_records) = 3
    /\ in_records[1].content = in_records[3].content
    /\ in_records[1].title # in_records[3].title
    /\ in_records[2].content # in_records[1].content
    /\ Cardinality(DOMAIN in_store[in_namespace]) = 2

(***************************************************************************)
(* Properties of the parser.                                               *)
(***************************************************************************)
RECURSIVE MatchingOpen(_, _, _)
\* position of the "(" that closes at depth 0 when the line is read
\* backwards from position i at nesting depth d; 0 when there is none
MatchingOpen(line, i, d) ==
    IF i = 0 THEN 0
    ELSE IF line[i] = ")" THEN MatchingOpen(line, i - 1, d + 1)
    ELSE IF line[i] = "(" THEN (IF d = 1 THEN i ELSE MatchingOpen(line, i - 1, d - 1))
    ELSE MatchingOpen(line, i - 1, d)

\* where the trailing parenthesized group of a line starts: the "(" paired
\* with the ")" that ends the line; 0 when the line does not end with a group
TrailingGroupStart(line) ==
    IF line # <<>> /\ line[Len(line)] = ")" THEN MatchingOpen(line, Len(line), 0) ELSE 0

\* C22: for an entry of three non-blank lines or more, when the first line
\* ends with a parenthesized group the author is the text inside that
\* trailing group and the title is the line without the group; otherwise the
\* author is "Unknown" and the title is the whole line.
C22_AuthorIsTrailingGroup ==
    (ppc = "returned" /\ Len(StripLines(raw_lines)) >= 3) =>
        LET line == StripLines(raw_lines)[1]
            g == TrailingGroupStart(line)
        IN /\ parsed.kind = "highlight"
           /\ g > 0 => /\ parsed.author = SubSeq(line, g + 1, Len(line) - 1)
                       /\ parsed.title = Strip(SubSeq(line, 1, g - 1))
           /\ g = 0 => /\ parsed.author = Unknown
                       /\ parsed.title = line

(***************************************************************************)
(* Properties of the environment checks.                                   *)
(***************************************************************************)
\* C23: for every tool, when a variable its checks require is absent the
\* run makes no external call, and when the process has ended its exit
\* status is not zero.
C23_MissingEnvExitsNonZero ==
    ~(RequiredEnv(e_tool) \subseteq e_present) =>
        /\ ext_calls = {}
        /\ epc \notin {"work", "worked"}
        /\ epc = "exited" => exit_status # 0

C25_WritersReadersAgree ==
    \A ns \in Namespaces : \A id \in IdsIn(a_store[ns]) :
        a_writer[id] # "none" =>
            /\ ns = SamplerNamespace
            /\ ns = QueryLibraryNamespace(a_namespace)

====
